---------------------------- MODULE Spec2Model ----------------------------
(***************************************************************************)
(* OT change validation tool: the validation waterfall                     *)
(* (engine/validator.py), the correlation engine (engine/correlator.py),   *)
(* the store (database/db.py) and the alert processor                      *)
(* (connectors/id_listener.py).                                            *)
(*                                                                         *)
(* Representation.                                                         *)
(*  - A text (comment, change detail, patch id) is a sequence of tokens;   *)
(*    a regular expression of the code is the table of what it finds in    *)
(*    each token of the vocabulary.                                        *)
(*  - An asset name is a sequence of characters.                           *)
(*  - A category / change type is a sequence of words.                     *)
(*  - A time is a whole number of hours since midnight of day 0.           *)
(*  - A score is an integer number of 1/Scale (a factor) or of             *)
(*    1/(100*Scale) (a weighted total, the weights being percentages).     *)
(*    Divisions round down; the code computes in binary floating point.    *)
(***************************************************************************)
EXTENDS Integers, Sequences, FiniteSets, TLC

\* ------------------------------------------------------------------------
\* Bounds of the model
\* ------------------------------------------------------------------------
\* rows of the alerts table
MaxAlerts == 2

\* exceptions of one import
MaxBatch == 2

\* readings of datetime.now() that differ in the second
MaxClock == 1

\* the latest detection hour of the calls of _time_score
MaxHour == 130

\* the most mails fetched, and the most datagrams queued, in one cycle
MaxFetched == 2

\* the most data lines of an imported file
MaxLines == 2

\* the most datagrams the syslog receiver gets
MaxDatagrams == 3

\* ------------------------------------------------------------------------
\* Generic helpers
\* ------------------------------------------------------------------------
\* None / SQL NULL: of a text column, of a time, of a row id, of a rule, of a
\* text made of tokens or characters (where the code only tests "not x")
NULL == "NULL"

NoTime == 0 - 1

NoId == 1 - 1

NoRule == <<>>

\* correlate's None
NoMatch == [matched |-> FALSE]

Scale == 48 * 25000

Range(s) == {s[i] : i \in 1..Len(s)}

\* the value of a local variable: the element of a one-element set
Value(S) == CHOOSE x \in S : TRUE

Max2(a, b) == IF a >= b THEN a ELSE b

Min2(a, b) == IF a <= b THEN a ELSE b

\* s[lo..hi) with 1-based lo, as Python's s[lo-1:hi-1]
Slice(s, lo, hi) == [i \in 1..(IF hi > lo THEN hi - lo ELSE 0) |-> s[lo + i - 1]]

\* Python: needle in hay (substring test on character sequences)
IsSubstring(needle, hay) ==
    \E off \in 0..(Len(hay) - Len(needle)) :
        \A i \in 1..Len(needle) : hay[off + i] = needle[i]

\* The permutations of a finite set, as sequences without repetition
Perms(S) ==
    {p \in [1..Cardinality(S) -> S] : \A i, j \in 1..Cardinality(S) : i # j => p[i] # p[j]}

\* ------------------------------------------------------------------------
\* Tokens and the regular expressions of the code
\* ------------------------------------------------------------------------
\* str.upper() on the tokens of the vocabulary
Upper(tok) ==
    CASE tok = "chg0000338290" -> "CHG0000338290"
      [] tok = "kb5062070" -> "KB5062070"
      [] tok = "kb-5062070" -> "KB-5062070"
      [] OTHER -> tok

\* re.findall(r'CHG\d{10}', token, re.IGNORECASE): the raw match, if any
ChgMatch(tok) ==
    IF tok \in {"CHG0000338290", "chg0000338290", "CHG0000338289",
                "CHG0000338288", "CHG0000338287", "CHG0000338286", "CHG0000338285"}
    THEN <<tok>> ELSE <<>>

\* re.search(r'KB\d{6,7}', token, re.IGNORECASE): the raw match, if any.
\* Seven digits at most are taken; "KB-..." does not match this pattern.
KbMatch(tok) ==
    CASE tok \in {"KB5062070", "kb5062070", "KB9999999"} -> <<tok>>
      [] tok = "KB50620701" -> <<"KB5062070">>
      [] OTHER -> <<>>

\* re.findall(r'KB[- ]?(\d{6,7})', token, re.IGNORECASE): the digit group
KbDigits(tok) ==
    CASE tok \in {"KB5062070", "kb5062070", "KB-5062070", "kb-5062070", "KB50620701"} -> <<"5062070">>
      [] tok = "KB9999999" -> <<"9999999">>
      [] OTHER -> <<>>

\* re.sub(r'^KB[- ]?', '', kb) on a KB identifier of a change (case-sensitive)
StripKb(kb) ==
    CASE kb \in {"KB5062070", "KB-5062070"} -> "5062070"
      [] kb = "KB9999999" -> "9999999"
      [] kb = "kb5062070" -> "kb5062070"
      [] OTHER -> kb

\* f'KB{digits}'
KbOf(digits) ==
    CASE digits = "5062070" -> "KB5062070"
      [] digits = "9999999" -> "KB9999999"
      [] OTHER -> "KB?"

RECURSIVE FindAll(_, _)
\* re.findall over a text: the matches of every token, in text order
FindAll(Match(_), text) ==
    IF text = <<>> THEN <<>>
    ELSE Match(Head(text)) \o FindAll(Match, Tail(text))

\* ------------------------------------------------------------------------
\* Correlation engine (engine/correlator.py): constants
\* ------------------------------------------------------------------------
\* variant of WEIGHTS: the identifier weight 0.20, the weights no longer sum to 1
WEIGHTS_kb_20 == [asset |-> 40, time |-> 30, type |-> 20, kb |-> 20]

\* CorrelationEngine.WEIGHTS, in percent
WEIGHTS == [asset |-> 40, time |-> 30, type |-> 20, kb |-> 10]

\* 0.95 and 0.50, in percent
AUTO_VALIDATE_THRESHOLD == 95

MINIMUM_MATCH_THRESHOLD == 50

TIME_BUFFER_HOURS == 24

\* CorrelationEngine.CHANGE_TYPE_MAPPINGS.get(alert_cat, [])
CHANGE_TYPE_MAPPINGS(key) ==
    CASE key = "software" -> {"patch", "software", "install", "update"}
      [] key = "service" -> {"config", "software", "service"}
      [] key = "user" -> {"user", "access", "account"}
      [] key = "config" -> {"config", "setting", "parameter"}
      [] key = "file" -> {"config", "software", "patch"}
      [] key = "registry" -> {"config", "software"}
      [] key = "firewall" -> {"config", "network", "firewall"}
      [] key = "patch" -> {"patch", "update", "hotfix"}
      [] OTHER -> {}

\* ------------------------------------------------------------------------
\* _asset_similarity and difflib.SequenceMatcher(None, a, b).ratio()
\* ------------------------------------------------------------------------
RECURSIVE RunLen(_, _, _, _, _, _)
\* length of the common run of a and b starting at a[i], b[j], within
\* a[..ahi) and b[..bhi)
RunLen(a, b, i, j, ahi, bhi) ==
    IF i < ahi /\ j < bhi /\ a[i] = b[j]
    THEN 1 + RunLen(a, b, i + 1, j + 1, ahi, bhi)
    ELSE 0

\* SequenceMatcher.find_longest_match(alo, ahi, blo, bhi) without junk:
\* the longest block, of those the one starting earliest in a, of those the
\* one starting earliest in b; <<i, j, k>>
find_longest_match(a, b, alo, ahi, blo, bhi) ==
    LET pos == {p \in (alo..(ahi - 1)) \X (blo..(bhi - 1)) :
                    RunLen(a, b, p[1], p[2], ahi, bhi) > 0}
        len(p) == RunLen(a, b, p[1], p[2], ahi, bhi)
    IN  IF pos = {} THEN <<alo, blo, 0>>
        ELSE LET best == CHOOSE p \in pos :
                     \A q \in pos :
                        \/ len(p) > len(q)
                        \/ len(p) = len(q) /\ p[1] < q[1]
                        \/ len(p) = len(q) /\ p[1] = q[1] /\ p[2] <= q[2]
             IN  <<best[1], best[2], len(best)>>

RECURSIVE MatchedChars(_, _, _, _, _, _)
\* sum of the sizes of SequenceMatcher.get_matching_blocks()
MatchedChars(a, b, alo, ahi, blo, bhi) ==
    LET m == find_longest_match(a, b, alo, ahi, blo, bhi)
    IN  IF m[3] = 0 THEN 0
        ELSE m[3]
             + MatchedChars(a, b, alo, m[1], blo, m[2])
             + MatchedChars(a, b, m[1] + m[3], ahi, m[2] + m[3], bhi)

\* SequenceMatcher.ratio(): 2.0 * matches / (len(a) + len(b))
SequenceRatio(a, b) ==
    IF Len(a) + Len(b) = 0 THEN Scale
    ELSE (2 * MatchedChars(a, b, 1, Len(a) + 1, 1, Len(b) + 1) * Scale) \div (Len(a) + Len(b))

Separators == {"-", "_", " "}

\* set(name.replace('-', ' ').replace('_', ' ').split())
Tokens(name) ==
    {Slice(name, i, j) : <<i, j>> \in
        {p \in (1..Len(name)) \X (2..(Len(name) + 1)) :
            /\ p[1] < p[2]
            /\ \A k \in p[1]..(p[2] - 1) : name[k] \notin Separators
            /\ (p[1] = 1 \/ name[p[1] - 1] \in Separators)
            /\ (p[2] = Len(name) + 1 \/ name[p[2]] \in Separators)}}

_asset_similarity(alert_asset, change_asset) ==
    IF alert_asset = <<>> \/ change_asset = <<>> THEN 0
    ELSE IF alert_asset = change_asset THEN Scale
    ELSE IF IsSubstring(alert_asset, change_asset) \/ IsSubstring(change_asset, alert_asset)
         THEN (9 * Scale) \div 10
    ELSE LET ratio == SequenceRatio(alert_asset, change_asset)
             alert_tokens == Tokens(alert_asset)
             change_tokens == Tokens(change_asset)
         IN  IF alert_tokens # {} /\ change_tokens # {}
             THEN Max2(ratio,
                       (Cardinality(alert_tokens \cap change_tokens) * Scale)
                          \div Cardinality(alert_tokens \cup change_tokens))
             ELSE ratio

\* ------------------------------------------------------------------------
\* _time_score, _type_match, _kb_match
\* ------------------------------------------------------------------------
\* variant of _time_score: the window test with < in place of <=
_time_score_strict_window(detected_at, scheduled_start, scheduled_end) ==
    IF detected_at = NoTime \/ scheduled_start = NoTime THEN 0
    ELSE LET start == scheduled_start
             end == IF scheduled_end = NoTime THEN start + 24 ELSE scheduled_end
             window_start == start - TIME_BUFFER_HOURS
             window_end == end + TIME_BUFFER_HOURS
         IN  IF start < detected_at /\ detected_at < end THEN Scale
             ELSE IF window_start <= detected_at /\ detected_at <= window_end
                  THEN LET hours_outside == IF detected_at < start
                                            THEN start - detected_at
                                            ELSE detected_at - end
                       IN  Max2(0, Scale - (hours_outside * Scale) \div (TIME_BUFFER_HOURS * 2))
                  ELSE 0

\* variant of _time_score: the linear decay without the test of the buffer
_time_score_without_buffer_test(detected_at, scheduled_start, scheduled_end) ==
    IF detected_at = NoTime \/ scheduled_start = NoTime THEN 0
    ELSE LET start == scheduled_start
             end == IF scheduled_end = NoTime THEN start + 24 ELSE scheduled_end
         IN  IF start <= detected_at /\ detected_at <= end THEN Scale
             ELSE LET hours_outside == IF detected_at < start
                                       THEN start - detected_at
                                       ELSE detected_at - end
                  IN  Max2(0, Scale - (hours_outside * Scale) \div (TIME_BUFFER_HOURS * 2))

\* CorrelationEngine._time_score, times in hours
_time_score(detected_at, scheduled_start, scheduled_end) ==
    IF detected_at = NoTime \/ scheduled_start = NoTime THEN 0
    ELSE LET start == scheduled_start
             end == IF scheduled_end = NoTime THEN start + 24 ELSE scheduled_end
             window_start == start - TIME_BUFFER_HOURS
             window_end == end + TIME_BUFFER_HOURS
         IN  IF start <= detected_at /\ detected_at <= end THEN Scale
             ELSE IF window_start <= detected_at /\ detected_at <= window_end
                  THEN LET hours_outside == IF detected_at < start
                                            THEN start - detected_at
                                            ELSE detected_at - end
                       IN  Max2(0, Scale - (hours_outside * Scale) \div (TIME_BUFFER_HOURS * 2))
                  ELSE 0

\* str.lower() on the words of the vocabulary
Lower(word) ==
    CASE word = "Patch" -> "patch"
      [] OTHER -> word

LowerAll(words) == [i \in 1..Len(words) |-> Lower(words[i])]

_type_match(alert_category, change_type) ==
    IF alert_category = <<>> \/ change_type = <<>>
    THEN Scale \div 2
    ELSE LET alert_cat == LowerAll(alert_category)
             change_t == LowerAll(change_type)
         IN  IF alert_cat = change_t THEN Scale
             ELSE IF Len(alert_cat) = 1 /\ Len(change_t) = 1
                     /\ change_t[1] \in CHANGE_TYPE_MAPPINGS(alert_cat[1])
                  THEN Scale
             ELSE IF Range(alert_cat) \cap Range(change_t) # {}
                  THEN (7 * Scale) \div 10
             ELSE (3 * Scale) \div 10

\* Database.is_kb_approved: SELECT 1 FROM wsus_patches WHERE kb_number = ?
is_kb_approved(wsus, kb_number) == kb_number \in wsus

\* variant of _kb_match: 0.0 in place of the neutral 0.5 when the alert names
\* no KB
_kb_match_neutral_zero(alert_detail, kb_articles, wsus) ==
    IF alert_detail = <<>> THEN 0
    ELSE LET alert_kbs == Range(FindAll(KbDigits, alert_detail))
             change_kbs == {StripKb(kb) : kb \in kb_articles}
         IN  IF alert_kbs = {} THEN 0
             ELSE IF change_kbs = {}
                  THEN IF \E kb \in alert_kbs : is_kb_approved(wsus, KbOf(kb))
                       THEN Scale ELSE Scale \div 2
             ELSE IF alert_kbs \cap change_kbs # {} THEN Scale
             ELSE (3 * Scale) \div 10

\* CorrelationEngine._kb_match
_kb_match(alert_detail, kb_articles, wsus) ==
    IF alert_detail = <<>> THEN Scale \div 2
    ELSE LET alert_kbs == Range(FindAll(KbDigits, alert_detail))
             change_kbs == {StripKb(kb) : kb \in kb_articles}
         IN  IF alert_kbs = {} THEN Scale \div 2
             ELSE IF change_kbs = {}
                  THEN IF \E kb \in alert_kbs : is_kb_approved(wsus, KbOf(kb))
                       THEN Scale ELSE Scale \div 2
             ELSE IF alert_kbs \cap change_kbs # {} THEN Scale
             ELSE (3 * Scale) \div 10

\* _calculate_score: the factor map and the weighted sum (in 1/(100*Scale))
Factors(alert, change, wsus) ==
    [asset |-> _asset_similarity(alert.asset_name_normalized, change.asset_name_normalized),
     time |-> _time_score(alert.detected_at, change.scheduled_start, change.scheduled_end),
     type |-> _type_match(alert.change_category, change.change_type),
     kb |-> _kb_match(alert.change_detail, change.kb_articles, wsus)]

WeightedSum(factors) ==
    factors.asset * WEIGHTS.asset + factors.time * WEIGHTS.time
    + factors.type * WEIGHTS.type + factors.kb * WEIGHTS.kb

_calculate_score(alert, change, wsus) ==
    Value({[total |-> WeightedSum(factors), factors |-> factors] :
              factors \in {Factors(alert, change, wsus)}})

\* ------------------------------------------------------------------------
\* Store queries used by the engine (database/db.py)
\* ------------------------------------------------------------------------
\* The calendar day of a time
Day(t) == t \div 24

\* SQL "column <= ?" and "column >= ?" in get_changes_in_window.  The column
\* holds ISO text ('YYYY-MM-DDTHH:MM:SS'); the datetime parameter is bound by
\* the sqlite3 default adapter as 'YYYY-MM-DD HH:MM:SS'.  The comparison is
\* a text comparison: on equal days it is decided by 'T' > ' '.
StoredLeqParam(stored, param) == Day(stored) < Day(param)

StoredGeqParam(stored, param) == Day(stored) >= Day(param)

\* SQL "text LIKE '%' || pat || '%'": '_' in the pattern matches any character
LikeContains(pat, text) ==
    \E off \in 0..(Len(text) - Len(pat)) :
        \A i \in 1..Len(pat) : pat[i] = "_" \/ text[off + i] = pat[i]

\* Database.get_changes_in_window: the rows selected, in every order that
\* ORDER BY scheduled_start DESC allows
get_changes_in_window(table, start, end, asset_name) ==
    LET rows == {c \in Range(table) :
                    /\ ~c.deleted
                    /\ c.scheduled_start # NoTime /\ c.scheduled_end # NoTime
                    /\ StoredLeqParam(c.scheduled_start, end)
                    /\ StoredGeqParam(c.scheduled_end, start)
                    /\ (asset_name # <<>> =>
                            LikeContains(asset_name, c.asset_name_normalized))}
    IN  {s \in Perms(rows) :
            \A i, j \in 1..Len(s) : i < j => s[i].scheduled_start >= s[j].scheduled_start}

\* CorrelationEngine._get_candidate_changes
_get_candidate_changes(table, alert) ==
    LET detected_at == alert.detected_at
        search_start == detected_at - TIME_BUFFER_HOURS * 2
        search_end == detected_at + TIME_BUFFER_HOURS
        asset_name == alert.asset_name_normalized
    IN  get_changes_in_window(table, search_start, search_end,
            IF asset_name # <<>> THEN Slice(asset_name, 1, Min2(Len(asset_name), 3) + 1) ELSE <<>>)

\* ------------------------------------------------------------------------
\* CorrelationEngine.correlate
\* ------------------------------------------------------------------------
\* variant of _get_validation_rule: no rule at exactly the threshold
_get_validation_rule_strict(score, factors, change) ==
    IF score <= AUTO_VALIDATE_THRESHOLD * Scale THEN NoRule
    ELSE LET rules ==
                 (IF factors.asset * 100 >= 95 * Scale THEN <<"exact_asset_match">> ELSE <<>>)
              \o (IF factors.time >= Scale THEN <<"within_change_window">> ELSE <<>>)
              \o (IF factors.kb >= Scale THEN <<"kb_article_match">> ELSE <<>>)
              \o (IF change.approval_status = "approved" THEN <<"ticket_approved">> ELSE <<>>)
         IN  IF rules # <<>> THEN rules ELSE <<"high_confidence_match">>

\* _get_validation_rule: the rule names that are joined with '+'
_get_validation_rule(score, factors, change) ==
    IF score < AUTO_VALIDATE_THRESHOLD * Scale THEN NoRule
    ELSE LET rules ==
                 (IF factors.asset * 100 >= 95 * Scale THEN <<"exact_asset_match">> ELSE <<>>)
              \o (IF factors.time >= Scale THEN <<"within_change_window">> ELSE <<>>)
              \o (IF factors.kb >= Scale THEN <<"kb_article_match">> ELSE <<>>)
              \o (IF change.approval_status = "approved" THEN <<"ticket_approved">> ELSE <<>>)
         IN  IF rules # <<>> THEN rules ELSE <<"high_confidence_match">>

\* variant of CorrelationResult: is_auto_validated tested against
\* MINIMUM_MATCH_THRESHOLD
CorrelationResult_minimum_threshold(alert, change, wsus) ==
    Value({[matched |-> TRUE,
            change_id |-> change.id,
            ticket_id |-> change.ticket_id,
            score |-> sc.total,
            factors |-> sc.factors,
            is_auto_validated |-> sc.total >= MINIMUM_MATCH_THRESHOLD * Scale,
            validation_rule |-> _get_validation_rule(sc.total, sc.factors, change)] :
               sc \in {_calculate_score(alert, change, wsus)}})

\* variant of CorrelationResult: is_auto_validated tested with > in place of >=
CorrelationResult_strict(alert, change, wsus) ==
    Value({[matched |-> TRUE,
            change_id |-> change.id,
            ticket_id |-> change.ticket_id,
            score |-> sc.total,
            factors |-> sc.factors,
            is_auto_validated |-> sc.total > AUTO_VALIDATE_THRESHOLD * Scale,
            validation_rule |-> _get_validation_rule(sc.total, sc.factors, change)] :
               sc \in {_calculate_score(alert, change, wsus)}})

\* CorrelationResult(...) of one candidate
CorrelationResult(alert, change, wsus) ==
    Value({[matched |-> TRUE,
            change_id |-> change.id,
            ticket_id |-> change.ticket_id,
            score |-> sc.total,
            factors |-> sc.factors,
            is_auto_validated |-> sc.total >= AUTO_VALIDATE_THRESHOLD * Scale,
            validation_rule |-> _get_validation_rule(sc.total, sc.factors, change)] :
               sc \in {_calculate_score(alert, change, wsus)}})

\* variant of Improves: the comparison with best_score left out
Improves_any(score, best_score) ==
    score >= MINIMUM_MATCH_THRESHOLD * Scale

\* variant of Improves: score > MINIMUM_MATCH_THRESHOLD in place of >=
Improves_strict(score, best_score) ==
    score > best_score /\ score > MINIMUM_MATCH_THRESHOLD * Scale

\* the test of the loop body: score > best_score and score >= MINIMUM_MATCH_THRESHOLD
Improves(score, best_score) ==
    score > best_score /\ score >= MINIMUM_MATCH_THRESHOLD * Scale

RECURSIVE CorrelateLoop(_, _, _, _, _, _)
\* the loop "for change in candidates" from candidate i on
CorrelateLoop(alert, candidates, wsus, i, best_match, best_score) ==
    IF i > Len(candidates) THEN best_match
    ELSE Value({CorrelateLoop(alert, candidates, wsus, i + 1, best[1], best[2]) :
                   best \in {IF Improves(r.score, best_score)
                             THEN <<r, r.score>>
                             ELSE <<best_match, best_score>> :
                                 r \in {CorrelationResult(alert, candidates[i], wsus)}}})

\* correlate, given the candidates the store returned
correlate(alert, candidates, wsus) ==
    IF candidates = <<>> THEN NoMatch
    ELSE CorrelateLoop(alert, candidates, wsus, 1, NoMatch, 0)

\* ------------------------------------------------------------------------
\* ServiceNow (connectors/servicenow_pseg.py)
\* ------------------------------------------------------------------------
\* The change requests of the remote instance, as normalize_change returns
\* them: ticket number -> approval_status and state
ServiceNowTickets ==
    {"CHG0000338290", "CHG0000338289", "CHG0000338288", "CHG0000338287"}

ServiceNowRecord(number) ==
    CASE number = "CHG0000338290" ->
            [ticket_id |-> number, approval_status |-> "approved", state |-> "Closed Successful"]
      [] number = "CHG0000338289" ->
            [ticket_id |-> number, approval_status |-> "approved", state |-> "Closed Incomplete"]
      [] number = "CHG0000338288" ->
            [ticket_id |-> number, approval_status |-> "pending", state |-> "Closed Successful"]
      [] OTHER ->
            [ticket_id |-> number, approval_status |-> "approved", state |-> "Implement"]

\* needle in state.lower(), for the states of the instance
StateContains(state, needle) ==
    CASE needle = "closed" -> state \in {"Closed Successful", "Closed Incomplete"}
      [] needle = "successful" -> state = "Closed Successful"
      [] OTHER -> FALSE

\* PSEGServiceNowConnector.lookup_multiple_chg: the records found, or [] when
\* the request fails
lookup_multiple_chg(chg_numbers, request_ok) ==
    IF chg_numbers = <<>> \/ ~request_ok THEN {}
    ELSE {ServiceNowRecord(n) : n \in Range(chg_numbers) \cap ServiceNowTickets}

\* the return expression of PSEGServiceNowConnector.is_change_approved_and_closed
is_change_approved_and_closed(change) ==
    /\ change.approval_status = "approved"
    /\ StateContains(change.state, "closed")
    /\ StateContains(change.state, "successful")

\* ------------------------------------------------------------------------
\* ValidationProcessor (engine/validator.py)
\* ------------------------------------------------------------------------
\* 1.0 as a weighted total
One == 100 * Scale

RECURSIVE DedupUpper(_, _)
\* the loop "for m in matches" of extract_chg_numbers_from_comment: seen is
\* the set of the elements of unique
DedupUpper(matches, unique) ==
    IF matches = <<>> THEN unique
    ELSE LET upper_m == Upper(Head(matches))
         IN  IF upper_m \in Range(unique)
             THEN DedupUpper(Tail(matches), unique)
             ELSE DedupUpper(Tail(matches), Append(unique, upper_m))

\* connectors/servicenow_pseg.py, extract_chg_numbers_from_comment
extract_chg_numbers_from_comment(comment) ==
    IF comment = <<>> THEN <<>>
    ELSE DedupUpper(FindAll(ChgMatch, comment), <<>>)

\* IDExceptionParser._parse_row: extracted_chg_numbers =
\* list(set(c.upper() for c in matches)), in every order the iteration of
\* the set can take
_parse_row_chg_numbers(comment) ==
    Perms({Upper(m) : m \in Range(FindAll(ChgMatch, comment))})

\* _extract_chg_numbers: [m.upper() for m in set(matches)], in every order
\* the iteration of the set can take
_extract_chg_numbers(comment) ==
    IF comment = <<>> THEN {<<>>}
    ELSE LET matches == Range(FindAll(ChgMatch, comment))
         IN  {[i \in 1..Len(p) |-> Upper(p[i])] : p \in Perms(matches)}

\* variant of approved_changes: state compared with 'closed' in place of the
\* substring test
approved_changes_state_equals(found) ==
    {c \in found : c.approval_status = "approved" /\ c.state = "closed"}

\* the filter of _correlate_with_direct_lookup
approved_changes(found) ==
    {c \in found : c.approval_status = "approved" /\ StateContains(c.state, "closed")}

\* _correlate_with_direct_lookup: does it return a validated correlation?
\* lookup is "ok", "request_error" (caught by the connector, [] returned) or
\* "error" (any other exception, caught here)
_correlate_with_direct_lookup(snow, chg_numbers, lookup) ==
    IF ~snow \/ chg_numbers = <<>> THEN FALSE
    ELSE IF lookup = "error" THEN FALSE
    ELSE approved_changes(lookup_multiple_chg(chg_numbers, lookup = "ok")) # {}

\* variant of KbNumbersOf: the patch_id field is not read
KbNumbersOf_without_patch_id(exception) ==
    exception.kb_numbers

\* kb_numbers after "Also extract KB from patch_id field"
KbNumbersOf(exception) ==
    exception.kb_numbers \o
        (IF exception.patch_id # <<>> /\ FindAll(KbMatch, exception.patch_id) # <<>>
         THEN <<Upper(Head(FindAll(KbMatch, exception.patch_id)))>>
         ELSE <<>>)

\* the first kb of kb_numbers for which db.is_kb_approved(kb) holds
FirstApproved(kb_numbers, wsus) ==
    LET idx == {i \in 1..Len(kb_numbers) : is_kb_approved(wsus, kb_numbers[i])}
    IN  IF idx = {} THEN <<>>
        ELSE <<kb_numbers[CHOOSE i \in idx : \A j \in idx : i <= j]>>

\* Step 1 succeeded
DirectLookupFires(snow, chg_numbers, lookup) ==
    /\ chg_numbers # <<>>
    /\ snow
    /\ _correlate_with_direct_lookup(snow, chg_numbers, lookup)

\* Step 2 succeeded
WsusFires(exception, wsus) ==
    /\ exception.exception_type = "patches_installed"
    /\ FirstApproved(KbNumbersOf(exception), wsus) # <<>>

\* process_exception, for one order chg_numbers of the extracted numbers and
\* one outcome of the lookup
process_exception(exception, snow, wsus, chg_numbers, lookup) ==
    LET base == [exception_type |-> exception.exception_type,
                 detected_at |-> exception.detected_at,
                 asset_group |-> exception.asset_group,
                 correlation_method |-> NULL,
                 is_validated |-> FALSE,
                 confidence |-> 0,
                 matched_tickets |-> <<>>,
                 notes |-> IF chg_numbers # <<>> THEN <<"CHG numbers found">> ELSE <<>>]
    IN  IF DirectLookupFires(snow, chg_numbers, lookup)
        THEN [base EXCEPT !.correlation_method = "direct_chg_lookup",
                          !.is_validated = TRUE,
                          !.confidence = One,
                          !.matched_tickets = chg_numbers,
                          !.notes = @ \o <<"Auto-validated via direct CHG lookup">>]
        ELSE IF WsusFires(exception, wsus)
        THEN [base EXCEPT !.correlation_method = "wsus_approved",
                          !.is_validated = TRUE,
                          !.confidence = One,
                          !.matched_tickets = FirstApproved(KbNumbersOf(exception), wsus),
                          !.notes = @ \o <<"Auto-validated: KB in WSUS approved list">>]
        ELSE [base EXCEPT !.correlation_method = "none",
                          !.is_validated = FALSE,
                          !.confidence = 0,
                          !.notes = @ \o <<"No matching change ticket found - manual review required">>]

\* process_batch: every sequence of results process_exception can give
ProcessBatchResults(exceptions, snow, wsus) ==
    LET n == Len(exceptions)
        orders == UNION {_extract_chg_numbers(exceptions[i].comment) : i \in 1..n}
    IN  {[i \in 1..n |-> process_exception(exceptions[i], snow, wsus, ord[i], lk[i])] :
            <<ord, lk>> \in
                {ol \in [1..n -> orders] \X [1..n -> {"ok", "request_error", "error"}] :
                    \A i \in 1..n : ol[1][i] \in _extract_chg_numbers(exceptions[i].comment)}}

\* the summary of process_batch
Summary(exceptions, results) ==
    LET validated == {i \in 1..Len(results) : results[i].is_validated}
        types == {exceptions[i].exception_type : i \in 1..Len(exceptions)}
    IN  [total |-> Len(exceptions),
         auto_validated |-> Cardinality(validated),
         pending_review |-> Len(results) - Cardinality(validated),
         by_type |-> [t \in types |->
             [validated |-> Cardinality({i \in validated : exceptions[i].exception_type = t}),
              pending |-> Cardinality({i \in (1..Len(results)) \ validated :
                                            exceptions[i].exception_type = t})]],
         results |-> results]

\* ------------------------------------------------------------------------
\* Inputs
\* ------------------------------------------------------------------------
dc01 == <<"d", "c", "0", "1">>

dc02 == <<"d", "c", "0", "2">>

\* str.lower() on the characters of the asset names
LowerChar(c) ==
    CASE c = "D" -> "d"
      [] c = "C" -> "c"
      [] OTHER -> c

LowerChars(name) == [i \in 1..Len(name) |-> LowerChar(name[i])]

\* rows of the changes table, as upsert_change stores them
ChangeRows ==
    << [id |-> 1, ticket_id |-> "CHG0000338771", asset_name_normalized |-> dc01,
        change_type |-> <<"patch">>, scheduled_start |-> 48, scheduled_end |-> 72,
        approval_status |-> "approved", kb_articles |-> {"KB5062070"}, deleted |-> FALSE],
       [id |-> 2, ticket_id |-> "CHG0000338772", asset_name_normalized |-> dc02,
        change_type |-> <<>>, scheduled_start |-> 48, scheduled_end |-> 72,
        approval_status |-> "pending", kb_articles |-> {}, deleted |-> FALSE] >>

\* kb_number column of wsus_patches (tests/test_data.py, TEST_WSUS_PATCHES)
WsusRows == {"KB5062070", "KB5063871"}

ExceptionTypes == {"patches_installed", "software_installed"}

Comments ==
    { <<>>,
      <<"Activity:", "CHG0000338290">>,
      <<"chg0000338290", "CHG0000338290">>,
      <<"CHG0000338289">>,
      <<"CHG0000338288">>,
      <<"CHG0000338288", "CHG0000338290">>,
      <<"CHG0000338287">>,
      <<"CHG0000338286">>,
      <<"KB5062070", "installed">> }

PatchIds == { <<>>, <<"KB5062070">>, <<"KB9999999">> }

\* IDExceptionParser._parse_type_specific_fields: details['kb_numbers']
ParserKbNumbers(patch_id) ==
    LET m == FindAll(KbMatch, patch_id)
    IN  [i \in 1..Len(m) |-> Upper(m[i])]

\* the exception dictionaries handed to process_exception
Exceptions ==
    {[exception_type |-> t, comment |-> c, patch_id |-> p, kb_numbers |-> k,
      asset_group |-> a, detected_at |-> 60] :
        <<t, c, p, k, a>> \in
            {x \in ExceptionTypes \X Comments \X PatchIds
                    \X {<<>>, <<"KB5062070">>, <<"KB9999999">>}
                    \X {<<"D", "C", "0", "1">>, <<"h", "m", "i">>} :
                x[4] \in {<<>>, ParserKbNumbers(x[3])}}}

\* the exceptions of the imports of the store pipeline
CsvExceptions ==
    {e \in Exceptions :
        /\ e.comment \in {<<>>, <<"Activity:", "CHG0000338290">>}
        /\ e.comment # <<>> => e.exception_type = "software_installed"
        /\ e.patch_id = <<"KB5062070">>
        /\ e.kb_numbers = <<>>
        /\ e.asset_group = <<"D", "C", "0", "1">>}

\* the contents of the alerts the listeners hand to _process_alert:
\* <<asset_name_normalized, change_category, change_detail, detected_at>>
AlertContents ==
    << <<dc01, <<"patch">>, <<>>, 60>>,
       <<dc01, <<"Patch", "install">>, <<"KB5062070", "installed">>, 60>>,
       << <<>>, <<>>, <<"KB5062070", "installed">>, 60>>,
       << <<>>, <<>>, <<>>, 60>>,
       <<dc01, <<"patch">>, <<>>, 200>> >>

\* the alerts: alert number k has the alert_id ID-k
ListenerAlerts ==
    {[alert_id |-> <<"ID", k>>,
      asset_name |-> AlertContents[k][1], asset_name_normalized |-> AlertContents[k][1],
      change_category |-> AlertContents[k][2], change_detail |-> AlertContents[k][3],
      detected_at |-> AlertContents[k][4], source_type |-> "syslog_cef"] :
        k \in 1..Len(AlertContents)}

\* ------------------------------------------------------------------------
\* State
\* ------------------------------------------------------------------------
VARIABLES
    alerts,        \* table alerts: sequence of rows, row id = position
    validations,   \* table validations
    audit_log,     \* table audit_log
    sync_status,   \* table sync_status: source_name -> records_synced
    changes,       \* table changes
    wsus_patches,  \* table wsus_patches: the kb_number column
    config,        \* ValidationProcessor.snow and IDAlertProcessor.correlator set?
    clock,         \* the last reading of datetime.now(), in seconds
    csv,           \* BatchProcessor.process_csv_import in progress
    lst,           \* IDAlertProcessor._process_alert in progress
    wf,            \* one call of ValidationProcessor.process_exception
    eng,           \* one call of CorrelationEngine.correlate
    ts,            \* one call of CorrelationEngine._time_score
    cyc,           \* one call of IDAlertProcessor.process_all_sources
    imp,           \* one call of IDExceptionParser.parse_csv and the batch made of it
    sq             \* SyslogHandler.alert_queue, its handler and its consumer

vars == <<alerts, validations, audit_log, sync_status, changes, wsus_patches,
          config, clock, csv, lst, wf, eng, ts, cyc, imp, sq>>

\* the calls that are not part of the store pipeline
calls == <<eng, ts, cyc, imp, sq>>

store == <<alerts, validations, audit_log, sync_status>>

\* result = {...} at the start of process_exception
EmptyResult ==
    [exception_type |-> "unknown", detected_at |-> NoTime, asset_group |-> <<>>,
     correlation_method |-> NULL, is_validated |-> FALSE, confidence |-> 0,
     matched_tickets |-> <<>>, notes |-> <<>>]

NoException ==
    [exception_type |-> "unknown", comment |-> <<>>, patch_id |-> <<>>,
     kb_numbers |-> <<>>, asset_group |-> <<>>, detected_at |-> NoTime]

NoSummary ==
    [total |-> 0, auto_validated |-> 0, pending_review |-> 0,
     by_type |-> <<>>, results |-> <<>>]

CsvIdle ==
    [pc |-> "idle", exceptions |-> <<>>, summary |-> NoSummary, i |-> 0, alert_id |-> NoId]

NoAlert ==
    [alert_id |-> <<>>, asset_name |-> <<>>, asset_name_normalized |-> <<>>,
     change_category |-> <<>>, change_detail |-> <<>>, detected_at |-> NoTime,
     source_type |-> NULL]

LstIdle == [pc |-> "idle", alert |-> NoAlert, alert_id |-> NoId]

WfIdle ==
    [pc |-> "idle", exception |-> NoException, chg_numbers |-> <<>>,
     lookup |-> "ok", result |-> EmptyResult]

EngIdle ==
    [pc |-> "idle", alert |-> NoAlert, candidates |-> <<>>, scores |-> <<>>,
     result |-> NoMatch, decision |-> NULL]

TsIdle ==
    [pc |-> "idle", detected_at |-> NoTime, scheduled_start |-> NoTime,
     scheduled_end |-> NoTime, score |-> 0]

CycIdle ==
    [pc |-> "idle", emails |-> <<>>, syslog |-> <<>>, i |-> 0, attempted |-> {},
     results |-> [email |-> 0, syslog |-> 0]]

ImpIdle ==
    [pc |-> "idle", headers |-> <<>>, lines |-> <<>>, i |-> 0, exceptions |-> <<>>,
     total |-> 0]

SqIdle ==
    [pc |-> "idle", datagrams |-> <<>>, handled |-> 0, alert_queue |-> <<>>,
     alerts |-> <<>>, returned |-> <<>>]

\* the parser and the syslog receiver are not in use
ParserIdle ==
    /\ imp = ImpIdle
    /\ sq = SqIdle

CallsIdle ==
    /\ eng = EngIdle
    /\ ts = TsIdle
    /\ cyc = CycIdle
    /\ ParserIdle

StoreInit ==
    /\ alerts = <<>>
    /\ validations = <<>>
    /\ audit_log = <<>>
    /\ sync_status = <<>>
    /\ changes = ChangeRows
    /\ wsus_patches = WsusRows
    /\ clock = 0

\* the store pipeline: imports and listener alerts
Init ==
    /\ StoreInit
    /\ config \in [snow : BOOLEAN, correlator : {TRUE}]
    /\ csv = CsvIdle
    /\ lst = LstIdle
    /\ wf = WfIdle
    /\ CallsIdle

\* ------------------------------------------------------------------------
\* Store updates (database/db.py)
\* ------------------------------------------------------------------------
\* Database.insert_alert: the table after the INSERT (validation_status is
\* 'pending'; the row id is the next AUTOINCREMENT value)
insert_alert(table, alert) ==
    Append(table,
        [id |-> Len(table) + 1,
         alert_id |-> alert.alert_id,
         asset_name |-> alert.asset_name,
         asset_name_normalized |-> alert.asset_name_normalized,
         change_category |-> alert.change_category,
         change_detail |-> alert.change_detail,
         detected_at |-> alert.detected_at,
         validation_status |-> "pending",
         source_type |-> alert.source_type])

\* alerts.alert_id is UNIQUE: the INSERT raises sqlite3.IntegrityError
AlertIdTaken(table, alert_id) == \E i \in 1..Len(table) : table[i].alert_id = alert_id

\* variant of create_validation: the table keeps the latest decision only
create_validation_replacing(table, validation) == <<[validation EXCEPT !.id = 1]>>

\* Database.create_validation
create_validation(table, validation) ==
    Append(table, [validation EXCEPT !.id = Len(table) + 1])

\* Database.update_alert_status: UPDATE alerts SET validation_status = ?
update_alert_status(table, alert_id, status) ==
    [i \in 1..Len(table) |->
        IF table[i].id = alert_id THEN [table[i] EXCEPT !.validation_status = status]
        ELSE table[i]]

\* ... and INSERT INTO audit_log
AuditEntry(alert_id, validated_by, status) ==
    [action |-> "update_status", table_name |-> "alerts", record_id |-> alert_id,
     user |-> validated_by, new_value |-> status]

\* ------------------------------------------------------------------------
\* BatchProcessor.process_csv_import (engine/validator.py)
\* ------------------------------------------------------------------------
\* alert_data of exception number i (from 0), with datetime.now() read as t;
\* an alert_id is the tuple of the parts of the identifier
AlertData(exc, i, t) ==
    [alert_id |-> <<"CSV", t, i>>,
     asset_name |-> exc.asset_group,
     asset_name_normalized |-> LowerChars(exc.asset_group),
     change_category |-> <<exc.exception_type>>,
     change_detail |-> exc.comment,
     detected_at |-> exc.detected_at,
     source_type |-> "csv_import"]

\* the validation record built from a result of process_exception
CsvValidation(alert_id, result) ==
    [id |-> NoId,
     alert_id |-> alert_id,
     change_id |-> NoId,
     correlation_score |-> result.confidence,
     correlation_factors |-> [method |-> result.correlation_method],
     validation_status |-> IF result.is_validated THEN "auto_validated" ELSE "pending_review",
     validated_by |-> IF result.is_validated THEN "SYSTEM" ELSE NULL,
     validated_at |-> IF result.is_validated THEN "now" ELSE NULL,
     notes |-> result.notes,
     auto_validation_rule |-> <<result.correlation_method>>]

\* alert rows still to be inserted by the import in progress
CsvPendingInserts ==
    IF csv.pc = "idle" \/ csv.pc = "sync" THEN 0
    ELSE Len(csv.exceptions) - csv.i + (IF csv.pc = "insert" THEN 1 ELSE 0)

\* summary = self.validator.process_batch(exceptions)
CsvStart ==
    /\ csv.pc = "idle"
    /\ \E n \in 1..MaxBatch : \E exceptions \in [1..n -> CsvExceptions] :
         /\ Len(alerts) + n <= MaxAlerts
         /\ \E results \in ProcessBatchResults(exceptions, config.snow, wsus_patches) :
              csv' = [pc |-> "insert", exceptions |-> exceptions,
                      summary |-> Summary(exceptions, results), i |-> 1, alert_id |-> NoId]
    /\ UNCHANGED <<calls, store, changes, wsus_patches, config, clock, lst, wf>>

\* the step after exception i is stored: the next exception or the sync status
CsvAdvance(c) ==
    IF c.i < Len(c.exceptions)
    THEN [c EXCEPT !.pc = "insert", !.i = c.i + 1, !.alert_id = NoId]
    ELSE [c EXCEPT !.pc = "sync", !.alert_id = NoId]

\* alert_id = self.db.insert_alert(alert_data)
CsvInsertAlert ==
    /\ csv.pc = "insert"
    /\ \E t \in clock..MaxClock :
         LET alert_data == AlertData(csv.exceptions[csv.i], csv.i - 1, t)
         IN  /\ clock' = t
             /\ IF AlertIdTaken(alerts, alert_data.alert_id)
                THEN /\ csv' = CsvIdle
                     /\ UNCHANGED alerts
                ELSE /\ alerts' = insert_alert(alerts, alert_data)
                     /\ csv' = [csv EXCEPT !.pc = "validation", !.alert_id = Len(alerts) + 1]
    /\ UNCHANGED <<calls, validations, audit_log, sync_status, changes, wsus_patches, config, lst, wf>>

\* self.db.create_validation(validation)
CsvCreateValidation ==
    /\ csv.pc = "validation"
    /\ validations' = create_validation(validations,
                          CsvValidation(csv.alert_id, csv.summary.results[csv.i]))
    /\ csv' = IF csv.summary.results[csv.i].is_validated
              THEN [csv EXCEPT !.pc = "status"]
              ELSE CsvAdvance(csv)
    /\ UNCHANGED <<calls, alerts, audit_log, sync_status, changes, wsus_patches, config, clock, lst, wf>>

\* self.db.update_alert_status(alert_id, 'validated', 'SYSTEM')
CsvUpdateStatus ==
    /\ csv.pc = "status"
    /\ alerts' = update_alert_status(alerts, csv.alert_id, "validated")
    /\ audit_log' = Append(audit_log, AuditEntry(csv.alert_id, "SYSTEM", "validated"))
    /\ csv' = CsvAdvance(csv)
    /\ UNCHANGED <<calls, validations, sync_status, changes, wsus_patches, config, clock, lst, wf>>

\* self.db.update_sync_status('csv_import', summary['total'], 'success')
CsvUpdateSync ==
    /\ csv.pc = "sync"
    /\ sync_status' = [src \in (DOMAIN sync_status) \cup {"csv_import"} |->
                          IF src = "csv_import" THEN csv.summary.total ELSE sync_status[src]]
    /\ csv' = CsvIdle
    /\ UNCHANGED <<calls, alerts, validations, audit_log, changes, wsus_patches, config, clock, lst, wf>>

\* a store call of the import raises (sqlite3.OperationalError: the
\* connection context manager rolls the call back and re-raises); nothing
\* in process_csv_import catches it
CsvStoreError ==
    /\ csv.pc \in {"insert", "validation", "status", "sync"}
    /\ csv' = CsvIdle
    /\ UNCHANGED <<calls, store, changes, wsus_patches, config, clock, lst, wf>>

\* ------------------------------------------------------------------------
\* IDAlertProcessor._process_alert and correlate_and_validate
\* ------------------------------------------------------------------------
\* variant of EngineValidation: the no-match record carries no notes
EngineValidation_without_notes(alert_id, result) ==
    IF result.matched
    THEN [id |-> NoId,
          alert_id |-> alert_id,
          change_id |-> result.change_id,
          correlation_score |-> result.score,
          correlation_factors |-> result.factors,
          validation_status |-> IF result.is_auto_validated THEN "auto_validated" ELSE "pending_review",
          validated_by |-> IF result.is_auto_validated THEN "SYSTEM" ELSE NULL,
          validated_at |-> IF result.is_auto_validated THEN "now" ELSE NULL,
          notes |-> <<>>,
          auto_validation_rule |-> result.validation_rule]
    ELSE [id |-> NoId,
          alert_id |-> alert_id,
          change_id |-> NoId,
          correlation_score |-> 0,
          correlation_factors |-> <<>>,
          validation_status |-> "pending_review",
          validated_by |-> NULL,
          validated_at |-> NULL,
          notes |-> <<>>,
          auto_validation_rule |-> NoRule]

\* the validation record of correlate_and_validate
EngineValidation(alert_id, result) ==
    IF result.matched
    THEN [id |-> NoId,
          alert_id |-> alert_id,
          change_id |-> result.change_id,
          correlation_score |-> result.score,
          correlation_factors |-> result.factors,
          validation_status |-> IF result.is_auto_validated THEN "auto_validated" ELSE "pending_review",
          validated_by |-> IF result.is_auto_validated THEN "SYSTEM" ELSE NULL,
          validated_at |-> IF result.is_auto_validated THEN "now" ELSE NULL,
          notes |-> <<>>,
          auto_validation_rule |-> result.validation_rule]
    ELSE [id |-> NoId,
          alert_id |-> alert_id,
          change_id |-> NoId,
          correlation_score |-> 0,
          correlation_factors |-> <<>>,
          validation_status |-> "pending_review",
          validated_by |-> NULL,
          validated_at |-> NULL,
          notes |-> <<"No matching change ticket found">>,
          auto_validation_rule |-> NoRule]

\* alert_id = self.db.insert_alert(alert); an alert_id already stored makes
\* the INSERT raise and nothing is written
ProcessAlert ==
    /\ lst.pc = "idle"
    /\ Len(alerts) + CsvPendingInserts < MaxAlerts
    /\ \E alert \in ListenerAlerts :
         /\ ~AlertIdTaken(alerts, alert.alert_id)
         /\ alerts' = insert_alert(alerts, alert)
         /\ lst' = IF config.correlator
                   THEN [pc |-> "correlate", alert |-> alert, alert_id |-> Len(alerts) + 1]
                   ELSE LstIdle
    /\ UNCHANGED <<calls, validations, audit_log, sync_status, changes, wsus_patches, config, clock, csv, wf>>

\* result = self.correlate(alert); self.db.create_validation(validation)
CorrelateAndValidate ==
    /\ lst.pc = "correlate"
    /\ \E candidates \in _get_candidate_changes(changes, lst.alert) :
       \E result \in {correlate(lst.alert, candidates, wsus_patches)} :
         /\ validations' = create_validation(validations,
                               EngineValidation(lst.alert_id, result))
         /\ lst' = IF result.matched /\ result.is_auto_validated
                   THEN [lst EXCEPT !.pc = "status"]
                   ELSE LstIdle
    /\ UNCHANGED <<calls, alerts, audit_log, sync_status, changes, wsus_patches, config, clock, csv, wf>>

\* self.db.update_alert_status(alert_id, 'validated', 'SYSTEM')
EngineUpdateStatus ==
    /\ lst.pc = "status"
    /\ alerts' = update_alert_status(alerts, lst.alert_id, "validated")
    /\ audit_log' = Append(audit_log, AuditEntry(lst.alert_id, "SYSTEM", "validated"))
    /\ lst' = LstIdle
    /\ UNCHANGED <<calls, validations, sync_status, changes, wsus_patches, config, clock, csv, wf>>

\* a store call of correlate_and_validate raises; _process_alert lets it
\* propagate
EngineStoreError ==
    /\ lst.pc \in {"correlate", "status"}
    /\ lst' = LstIdle
    /\ UNCHANGED <<calls, store, changes, wsus_patches, config, clock, csv, wf>>

Next ==
    \/ CsvStart
    \/ CsvInsertAlert
    \/ CsvCreateValidation
    \/ CsvUpdateStatus
    \/ CsvUpdateSync
    \/ CsvStoreError
    \/ ProcessAlert
    \/ CorrelateAndValidate
    \/ EngineUpdateStatus
    \/ EngineStoreError

Spec == Init /\ [][Next]_vars

\* ------------------------------------------------------------------------
\* One call of process_exception on every exception of the input set
\* ------------------------------------------------------------------------
InitWaterfall ==
    /\ StoreInit
    /\ config \in [snow : BOOLEAN, correlator : {TRUE}]
    /\ csv = CsvIdle
    /\ lst = LstIdle
    /\ \E e \in Exceptions : wf = [WfIdle EXCEPT !.pc = "start", !.exception = e]
    /\ CallsIdle

ProcessException ==
    /\ wf.pc = "start"
    /\ \E chg_numbers \in _extract_chg_numbers(wf.exception.comment) :
       \E lookup \in {"ok", "request_error", "error"} :
         wf' = [wf EXCEPT !.pc = "done",
                          !.chg_numbers = chg_numbers,
                          !.lookup = lookup,
                          !.result = process_exception(wf.exception, config.snow,
                                         wsus_patches, chg_numbers, lookup)]
    /\ UNCHANGED <<calls, store, changes, wsus_patches, config, clock, csv, lst>>

\* self.db.is_kb_approved(kb) raises in Step 2 (sqlite3.OperationalError from
\* the connection context manager): nothing in process_exception or
\* process_batch catches it
ProcessExceptionStoreError ==
    /\ wf.pc = "start"
    /\ \E chg_numbers \in _extract_chg_numbers(wf.exception.comment) :
       \E lookup \in {"ok", "request_error", "error"} :
         /\ ~DirectLookupFires(config.snow, chg_numbers, lookup)
         /\ wf.exception.exception_type = "patches_installed"
         /\ KbNumbersOf(wf.exception) # <<>>
         /\ wf' = [wf EXCEPT !.pc = "raised",
                             !.chg_numbers = chg_numbers,
                             !.lookup = lookup]
    /\ UNCHANGED <<calls, store, changes, wsus_patches, config, clock, csv, lst>>

NextWaterfall ==
    \/ ProcessException
    \/ ProcessExceptionStoreError

SpecWaterfall == InitWaterfall /\ [][NextWaterfall]_vars

\* ------------------------------------------------------------------------
\* Properties of process_exception (SpecWaterfall)
\* ------------------------------------------------------------------------
\* the changes the direct lookup of the finished call returned
ReturnedChanges ==
    IF config.snow /\ wf.lookup # "error"
    THEN lookup_multiple_chg(wf.chg_numbers, wf.lookup = "ok")
    ELSE {}

\* a returned change is approved and its state is closed and successful
ReturnedApprovedClosedSuccessful ==
    \E c \in ReturnedChanges : is_change_approved_and_closed(c)

\* the patch identifiers of the exception of the call: its kb_numbers and
\* the KB number in its patch_id
PatchIdentifiers ==
    Range(wf.exception.kb_numbers)
        \cup {Upper(m) : m \in UNION {Range(KbMatch(wf.exception.patch_id[i])) :
                                        i \in 1..Len(wf.exception.patch_id)}}

\* one of them is on the approved list
AllowListedPatch == \E kb \in PatchIdentifiers : kb \in wsus_patches

\* the alert the import builds from the exception of the call
WaterfallAlert == AlertData(wf.exception, 0, 0)

\* the engine finds a match for that alert
EngineWouldMatch ==
    \E candidates \in _get_candidate_changes(changes, WaterfallAlert) :
        correlate(WaterfallAlert, candidates, wsus_patches).matched

\* C1 as stated: when the direct lookup returns a change that is approved and
\* closed successful, the decision is auto-validated with score 1.0 and
\* rule direct_ticket_lookup
C1_RuleDirectTicketLookup ==
    (wf.pc = "done" /\ wf.chg_numbers # <<>> /\ ReturnedApprovedClosedSuccessful)
        => /\ wf.result.is_validated
           /\ wf.result.confidence = One
           /\ wf.result.correlation_method = "direct_ticket_lookup"

\* C1 amended: when the direct lookup returns a change that is approved and
\* closed successful, the decision is auto-validated with score 1.0 and the
\* rule it carries is direct_chg_lookup
C1_DirectLookupValidates ==
    (wf.pc = "done" /\ wf.chg_numbers # <<>> /\ ReturnedApprovedClosedSuccessful)
        => /\ wf.result.is_validated
           /\ wf.result.confidence = One
           /\ wf.result.correlation_method = "direct_chg_lookup"
           /\ wf.result.matched_tickets = wf.chg_numbers

\* C1 witness: the call on the comment "Activity: CHG0000338290" has
\* finished, with the ticket found approved and Closed Successful
C1_Witness ==
    /\ wf.pc = "done"
    /\ wf.exception.comment = <<"Activity:", "CHG0000338290">>
    /\ wf.chg_numbers = <<"CHG0000338290">>
    /\ ReturnedApprovedClosedSuccessful
    /\ wf.result.is_validated

\* C3: when neither the direct path nor the approved-patch path succeeded,
\* the engine is consulted: a match of the engine gives the decision its
\* score and auto-validated flag, and the fallback (rule none) is reached
\* only if the engine finds no match
C3_EngineIsThirdStep ==
    (wf.pc = "done"
        /\ ~DirectLookupFires(config.snow, wf.chg_numbers, wf.lookup)
        /\ ~WsusFires(wf.exception, wsus_patches))
        => \A candidates \in _get_candidate_changes(changes, WaterfallAlert) :
               LET r == correlate(WaterfallAlert, candidates, wsus_patches)
               IN  IF r.matched
                   THEN /\ wf.result.correlation_method # "none"
                        /\ wf.result.confidence = r.score
                        /\ wf.result.is_validated = r.is_auto_validated
                   ELSE wf.result.correlation_method = "none"

\* C4: the direct path fires only if a returned change is approved and its
\* state is closed and successful
C4_DirectOnlyIfClosedSuccessful ==
    (wf.pc = "done" /\ wf.result.correlation_method = "direct_chg_lookup")
        => ReturnedApprovedClosedSuccessful

C6_FirstSucceedingPath ==
    wf.pc = "done" =>
        LET direct == DirectLookupFires(config.snow, wf.chg_numbers, wf.lookup)
            patch == WsusFires(wf.exception, wsus_patches)
            method == wf.result.correlation_method
        IN  /\ direct => method = "direct_chg_lookup"
            /\ (~direct /\ patch) => method = "wsus_approved"
            /\ (~direct /\ ~patch /\ EngineWouldMatch)
                   => method \notin {"direct_chg_lookup", "wsus_approved", "none"}
            /\ (~direct /\ ~patch /\ ~EngineWouldMatch) => method = "none"

\* ------------------------------------------------------------------------
\* Properties of the store pipeline (Spec)
\* ------------------------------------------------------------------------
\* the processing of alert row i has not returned yet
InProgress(i) ==
    \/ csv.pc \in {"validation", "status"} /\ csv.alert_id = i
    \/ lst.pc \in {"correlate", "status"} /\ lst.alert_id = i

\* the validation rows that refer to alert row i
ValidationsOf(i) == {k \in 1..Len(validations) : validations[k].alert_id = i}

\* the validation rows written by correlate_and_validate
EngineRows ==
    {k \in 1..Len(validations) : alerts[validations[k].alert_id].source_type = "syslog_cef"}

\* the weighted total of a change for the alert of validation row k
TotalOf(k, change) ==
    _calculate_score(alerts[validations[k].alert_id], change, wsus_patches).total

\* the note of the fallback of process_exception is among the notes
ManualReviewNote(notes) ==
    \E j \in 1..Len(notes) :
        notes[j] = "No matching change ticket found - manual review required"

\* C2: once the processing of an alert has returned, an auto_validated
\* validation row has its alert marked validated, and an alert marked
\* validated has a validation row: the two writes took effect together
C2_WritesAreAtomic ==
    /\ \A k \in 1..Len(validations) :
           (validations[k].validation_status = "auto_validated"
                /\ ~InProgress(validations[k].alert_id))
               => alerts[validations[k].alert_id].validation_status = "validated"
    /\ \A i \in 1..Len(alerts) :
           alerts[i].validation_status = "validated" => ValidationsOf(i) # {}

\* C7 as stated: every validation that is neither auto-validated nor
\* matched is pending_review with score 0.0, rule none and a note that
\* manual review is required
C7_FallbackRuleNone ==
    \A k \in 1..Len(validations) :
        LET v == validations[k]
        IN  (v.validation_status # "auto_validated" /\ v.change_id = NoId)
                => /\ v.validation_status = "pending_review"
                   /\ v.correlation_score = 0
                   /\ v.auto_validation_rule = <<"none">>
                   /\ ManualReviewNote(v.notes)

\* C7 amended: every validation that is neither auto-validated nor matched
\* is pending_review with score 0.0; written by the import it has rule none
\* and the note that manual review is required, written by
\* correlate_and_validate it has no rule and the note 'No matching change
\* ticket found'
C7_FallbackDecision ==
    \A k \in 1..Len(validations) :
        LET v == validations[k]
        IN  (v.validation_status # "auto_validated" /\ v.change_id = NoId)
                => /\ v.validation_status = "pending_review"
                   /\ v.correlation_score = 0
                   /\ v.validated_by = NULL
                   /\ IF k \in EngineRows
                      THEN /\ v.auto_validation_rule = NoRule
                           /\ v.notes = <<"No matching change ticket found">>
                      ELSE /\ v.auto_validation_rule = <<"none">>
                           /\ ManualReviewNote(v.notes)

\* C7 witness: the import has recorded a fallback decision and
\* correlate_and_validate a no-match
C7_Witness ==
    /\ \E k \in EngineRows : validations[k].change_id = NoId
    /\ \E k \in (1..Len(validations)) \ EngineRows :
           validations[k].validation_status = "pending_review"

\* C8: every alert whose processing has returned has exactly one validation
\* row, and it is marked validated if and only if that row is
\* auto_validated (otherwise it is pending)
C8_OneAlertOneValidation ==
    \A i \in 1..Len(alerts) :
        ~InProgress(i)
            => /\ Cardinality(ValidationsOf(i)) = 1
               /\ alerts[i].validation_status \in {"validated", "pending"}
               /\ \A k \in ValidationsOf(i) :
                      (alerts[i].validation_status = "validated")
                          <=> (validations[k].validation_status = "auto_validated")

\* C9: a match is recorded auto_validated if and only if its weighted total
\* is at least AUTO_VALIDATE_THRESHOLD: a total of exactly 0.95 is
\* auto_validated, a total of 0.94 is pending_review
C9_AutoValidateThreshold ==
    \A k \in EngineRows :
        LET v == validations[k]
        IN  v.change_id # NoId
                => /\ v.correlation_score = TotalOf(k, changes[v.change_id])
                   /\ v.validation_status \in {"auto_validated", "pending_review"}
                   /\ (v.validation_status = "auto_validated")
                          <=> (v.correlation_score >= AUTO_VALIDATE_THRESHOLD * Scale)
                   /\ v.correlation_score = 95 * Scale
                          => v.validation_status = "auto_validated"
                   /\ v.correlation_score = 94 * Scale
                          => v.validation_status = "pending_review"

\* C9 witness: one match with total exactly 0.95 was auto-validated and one
\* with total 0.94 was recorded pending_review
C9_Witness ==
    /\ \E k \in EngineRows :
           /\ validations[k].correlation_score = 95 * Scale
           /\ validations[k].validation_status = "auto_validated"
    /\ \E k \in EngineRows :
           /\ validations[k].correlation_score = 94 * Scale
           /\ validations[k].validation_status = "pending_review"

\* C10: correlate_and_validate records a match if and only if a candidate
\* has a weighted total of at least MINIMUM_MATCH_THRESHOLD; with every
\* candidate below it, or no candidate, the validation is pending_review
\* with no change_id
C10_MinimumMatchThreshold ==
    \A k \in EngineRows :
        LET v == validations[k]
        IN  \A candidates \in _get_candidate_changes(changes, alerts[v.alert_id]) :
                /\ (v.change_id # NoId)
                       <=> (\E c \in Range(candidates) :
                                TotalOf(k, c) >= MINIMUM_MATCH_THRESHOLD * Scale)
                /\ v.change_id = NoId => v.validation_status = "pending_review"

\* C10 witness: an alert whose best candidate scores exactly 0.50 was
\* matched, and an alert with candidates that all score below 0.50 was not
C10_Witness ==
    /\ \E k \in EngineRows :
           /\ validations[k].change_id # NoId
           /\ validations[k].correlation_score = 50 * Scale
    /\ \E k \in EngineRows :
           /\ validations[k].change_id = NoId
           /\ \E candidates \in _get_candidate_changes(changes,
                                    alerts[validations[k].alert_id]) :
                  candidates # <<>>

\* ------------------------------------------------------------------------
\* One call of the correlation engine on a stored alert
\* ------------------------------------------------------------------------
dc03 == <<"d", "c", "0", "3">>

\* the hours at which the alerts of the engine calls are detected
EngineHours == {24, 47, 48, 60, 72, 73, 96, 100}

\* the alerts handed to correlate
EngineAlerts ==
    {[alert_id |-> <<"ID", 1>>, asset_name |-> a, asset_name_normalized |-> a,
      change_category |-> c, change_detail |-> d, detected_at |-> t,
      source_type |-> "syslog_cef"] :
        <<a, c, d, t>> \in
            {dc01, dc03, <<>>}
            \X {<<"patch">>, <<>>, <<"Patch", "install">>, <<"software">>}
            \X {<<>>, <<"KB5062070", "installed">>}
            \X EngineHours}

\* the contents of the changes table: the rows of ChangeRows; rows of
\* which one has no configuration item (normalize_change stores '' as its
\* asset name); two tickets for the same asset and window; a ticket that
\* is not approved yet
EngineTables ==
    { ChangeRows,
      << [id |-> 1, ticket_id |-> "CHG0000338771", asset_name_normalized |-> <<>>,
          change_type |-> <<"patch">>, scheduled_start |-> 48, scheduled_end |-> 72,
          approval_status |-> "approved", kb_articles |-> {}, deleted |-> FALSE],
         [id |-> 2, ticket_id |-> "CHG0000338772", asset_name_normalized |-> dc01,
          change_type |-> <<"software">>, scheduled_start |-> 50, scheduled_end |-> 72,
          approval_status |-> "approved", kb_articles |-> {"KB5062070"}, deleted |-> FALSE] >>,
      << [id |-> 1, ticket_id |-> "CHG0000338771", asset_name_normalized |-> dc01,
          change_type |-> <<"patch">>, scheduled_start |-> 48, scheduled_end |-> 72,
          approval_status |-> "approved", kb_articles |-> {"KB5062070"}, deleted |-> FALSE],
         [id |-> 2, ticket_id |-> "CHG0000338773", asset_name_normalized |-> dc01,
          change_type |-> <<"patch">>, scheduled_start |-> 48, scheduled_end |-> 72,
          approval_status |-> "approved", kb_articles |-> {"KB5062070"}, deleted |-> FALSE] >>,
      << [id |-> 1, ticket_id |-> "CHG0000338774", asset_name_normalized |-> dc01,
          change_type |-> <<"patch">>, scheduled_start |-> 48, scheduled_end |-> 72,
          approval_status |-> "pending", kb_articles |-> {"KB5062070"}, deleted |-> FALSE] >> }

InitEngine ==
    /\ alerts = <<>>
    /\ validations = <<>>
    /\ audit_log = <<>>
    /\ sync_status = <<>>
    /\ changes \in EngineTables
    /\ wsus_patches = WsusRows
    /\ clock = 0
    /\ config = [snow |-> FALSE, correlator |-> TRUE]
    /\ csv = CsvIdle
    /\ lst = LstIdle
    /\ wf = WfIdle
    /\ \E alert \in EngineAlerts : eng = [EngIdle EXCEPT !.pc = "start", !.alert = alert]
    /\ ts = TsIdle
    /\ cyc = CycIdle
    /\ ParserIdle

\* result = self.correlate(alert), and the decision correlate_and_validate
\* takes from it; scores keeps _calculate_score of every candidate
Correlate ==
    /\ eng.pc = "start"
    /\ \E candidates \in _get_candidate_changes(changes, eng.alert) :
       \E result \in {correlate(eng.alert, candidates, wsus_patches)} :
         eng' = [eng EXCEPT
                    !.pc = "done",
                    !.candidates = candidates,
                    !.scores = [i \in 1..Len(candidates) |->
                                   _calculate_score(eng.alert, candidates[i], wsus_patches)],
                    !.result = result,
                    !.decision = EngineValidation(NoId, result).validation_status]
    /\ UNCHANGED <<store, changes, wsus_patches, config, clock, csv, lst, wf, ts, cyc, imp, sq>>

NextEngine == Correlate

SpecEngine == InitEngine /\ [][NextEngine]_vars

\* C11: the match correlate returns is one of the candidates, its score,
\* factors and ticket_id are those of that one candidate, and no candidate
\* has a strictly higher weighted total
C11_BestMatchIsMaximal ==
    (eng.pc = "done" /\ eng.result.matched) =>
        \E i \in 1..Len(eng.candidates) :
            /\ eng.result.change_id = eng.candidates[i].id
            /\ eng.result.ticket_id = eng.candidates[i].ticket_id
            /\ eng.result.score = eng.scores[i].total
            /\ eng.result.factors = eng.scores[i].factors
            /\ \A j \in 1..Len(eng.candidates) : eng.scores[j].total <= eng.result.score

\* C11 witness: of two candidates that both reach MINIMUM_MATCH_THRESHOLD the
\* first scores higher, and it is the one returned
C11_Witness ==
    /\ eng.pc = "done"
    /\ eng.result.matched
    /\ Len(eng.candidates) = 2
    /\ eng.scores[1].total > eng.scores[2].total
    /\ eng.scores[2].total >= MINIMUM_MATCH_THRESHOLD * Scale
    /\ eng.result.change_id = eng.candidates[1].id

\* the same with the higher candidate second
C11_WitnessLater ==
    /\ eng.pc = "done"
    /\ eng.result.matched
    /\ Len(eng.candidates) = 2
    /\ eng.scores[2].total > eng.scores[1].total
    /\ eng.scores[1].total >= MINIMUM_MATCH_THRESHOLD * Scale
    /\ eng.result.change_id = eng.candidates[2].id

\* C12: for every alert and candidate, each of the four factors of
\* _calculate_score lies in [0,1] and so does the weighted total
C12_ScoreInUnitInterval ==
    eng.pc = "done" =>
        \A i \in 1..Len(eng.scores) :
            /\ \A f \in {"asset", "time", "type", "kb"} :
                   0 <= eng.scores[i].factors[f] /\ eng.scores[i].factors[f] <= Scale
            /\ 0 <= eng.scores[i].total
            /\ eng.scores[i].total <= One

\* C12 witness: a candidate with all four factors at 1.0, the total at its
\* upper end, next to a candidate with a lower total
C12_Witness ==
    /\ eng.pc = "done"
    /\ \E i \in 1..Len(eng.scores) : eng.scores[i].total = One
    /\ \E i \in 1..Len(eng.scores) : eng.scores[i].total < One

\* a candidate with a factor at 0.0: the lower end
C12_WitnessZero ==
    /\ eng.pc = "done"
    /\ \E i \in 1..Len(eng.scores) :
           eng.scores[i].factors.time = 0 /\ eng.scores[i].factors.asset = 0

\* ------------------------------------------------------------------------
\* One call of _time_score
\* ------------------------------------------------------------------------
InitTimeScore ==
    /\ StoreInit
    /\ config = [snow |-> FALSE, correlator |-> TRUE]
    /\ csv = CsvIdle
    /\ lst = LstIdle
    /\ wf = WfIdle
    /\ eng = EngIdle
    /\ \E detected_at \in (0..MaxHour) \cup {NoTime} :
       \E scheduled_start \in {NoTime, 48} :
       \E scheduled_end \in {NoTime, 48, 72} :
         ts = [pc |-> "start", detected_at |-> detected_at,
               scheduled_start |-> scheduled_start, scheduled_end |-> scheduled_end,
               score |-> 0]
    /\ cyc = CycIdle
    /\ ParserIdle

\* factors['time'] = self._time_score(detected_at, scheduled_start, scheduled_end)
TimeScore ==
    /\ ts.pc = "start"
    /\ ts' = [ts EXCEPT !.pc = "done",
                        !.score = _time_score(ts.detected_at, ts.scheduled_start,
                                              ts.scheduled_end)]
    /\ UNCHANGED <<store, changes, wsus_patches, config, clock, csv, lst, wf, eng, cyc, imp, sq>>

NextTimeScore == TimeScore

SpecTimeScore == InitTimeScore /\ [][NextTimeScore]_vars

\* the end of the scheduled window: scheduled_end, or start + 24h when absent
WindowEnd ==
    IF ts.scheduled_end = NoTime THEN ts.scheduled_start + 24 ELSE ts.scheduled_end

\* C13: the time factor is 1.0 for a detection inside [scheduled_start,
\* scheduled_end] (end = start + 24h when absent), and outside the window a
\* detection never scores higher than a nearer detection on the same side
C13_TimeFactorMonotone ==
    (ts.pc = "done" /\ ts.detected_at # NoTime /\ ts.scheduled_start # NoTime) =>
        /\ (ts.scheduled_start <= ts.detected_at /\ ts.detected_at <= WindowEnd)
               => ts.score = Scale
        /\ \A nearer \in 0..MaxHour :
               (\/ ts.detected_at < nearer /\ nearer < ts.scheduled_start
                \/ WindowEnd < nearer /\ nearer < ts.detected_at)
               => ts.score <= _time_score(nearer, ts.scheduled_start, ts.scheduled_end)

\* C13 witness: a detection after a window without scheduled_end, inside the
\* buffer, scored strictly between 0 and 1
C13_Witness ==
    /\ ts.pc = "done"
    /\ ts.scheduled_start # NoTime
    /\ ts.scheduled_end = NoTime
    /\ ts.detected_at > WindowEnd
    /\ 0 < ts.score
    /\ ts.score < Scale

\* C14 as claimed: the time factor is 0.0 for a detection BUFFER hours or
\* more before scheduled_start or BUFFER hours or more after scheduled_end,
\* and whenever scheduled_start is absent
C14_ZeroAtOrBeyondBuffer ==
    (/\ ts.pc = "done"
     /\ \/ ts.scheduled_start = NoTime
        \/ /\ ts.detected_at # NoTime
           /\ \/ ts.detected_at <= ts.scheduled_start - TIME_BUFFER_HOURS
              \/ ts.detected_at >= WindowEnd + TIME_BUFFER_HOURS)
    => ts.score = 0

\* C14, amended: the time factor is 0.0 for a detection more than BUFFER
\* hours before scheduled_start or after scheduled_end and whenever
\* scheduled_start is absent; at exactly BUFFER hours it is 0.5
C14_ZeroBeyondBuffer ==
    ts.pc = "done" =>
        /\ (\/ ts.scheduled_start = NoTime
            \/ /\ ts.detected_at # NoTime
               /\ \/ ts.detected_at < ts.scheduled_start - TIME_BUFFER_HOURS
                  \/ ts.detected_at > WindowEnd + TIME_BUFFER_HOURS)
           => ts.score = 0
        /\ (/\ ts.scheduled_start # NoTime
            /\ ts.detected_at # NoTime
            /\ \/ ts.detected_at = ts.scheduled_start - TIME_BUFFER_HOURS
               \/ ts.detected_at = WindowEnd + TIME_BUFFER_HOURS)
           => ts.score = Scale \div 2

\* C14 witness: a detection one hour beyond the buffer, scored 0.0
C14_Witness ==
    /\ ts.pc = "done"
    /\ ts.scheduled_start # NoTime
    /\ ts.detected_at = WindowEnd + TIME_BUFFER_HOURS + 1
    /\ ts.score = 0

\* the alert of the engine call names no KB article
NoIdentifiers == Range(FindAll(KbDigits, eng.alert.change_detail)) = {}

\* the alert's category is the change's type, or maps to it
CategoryMatches(change) ==
    /\ eng.alert.change_category # <<>>
    /\ change.change_type # <<>>
    /\ \/ LowerAll(eng.alert.change_category) = LowerAll(change.change_type)
       \/ /\ Len(eng.alert.change_category) = 1
          /\ Len(change.change_type) = 1
          /\ Lower(change.change_type[1])
                 \in CHANGE_TYPE_MAPPINGS(Lower(eng.alert.change_category[1]))

\* the alert was detected inside the change's scheduled window
InsideWindow(change) ==
    /\ change.scheduled_start <= eng.alert.detected_at
    /\ eng.alert.detected_at <= change.scheduled_end

NoTokenNoTime ==
    /\ eng.pc = "done"
    /\ \A i \in 1..Len(eng.candidates) :
          /\ Tokens(eng.alert.asset_name_normalized)
                 \cap Tokens(eng.candidates[i].asset_name_normalized) = {}
          /\ eng.scores[i].factors.time = 0

\* C16 as claimed: for such an alert no candidate reaches
\* MINIMUM_MATCH_THRESHOLD, correlate returns no match and the decision is
\* pending_review
C16_ScenarioFour ==
    NoTokenNoTime =>
        /\ \A i \in 1..Len(eng.candidates) :
               eng.scores[i].total < MINIMUM_MATCH_THRESHOLD * Scale
        /\ ~eng.result.matched
        /\ eng.decision = "pending_review"

\* C16, amended: for such an alert no candidate reaches
\* AUTO_VALIDATE_THRESHOLD and the decision is pending_review; correlate
\* returns no match exactly when no candidate reaches MINIMUM_MATCH_THRESHOLD
C16_ScenarioFourPending ==
    NoTokenNoTime =>
        /\ \A i \in 1..Len(eng.candidates) : eng.scores[i].total < 95 * Scale
        /\ eng.decision = "pending_review"
        /\ ~eng.result.matched <=>
               \A i \in 1..Len(eng.candidates) :
                   eng.scores[i].total < MINIMUM_MATCH_THRESHOLD * Scale

\* C16 witness: such an alert with a candidate that reaches
\* MINIMUM_MATCH_THRESHOLD through a similar asset name; it is returned, and
\* the decision is pending_review
C16_Witness ==
    /\ NoTokenNoTime
    /\ eng.candidates # <<>>
    /\ eng.result.matched
    /\ eng.result.factors.asset > 0
    /\ eng.decision = "pending_review"

\* such an alert without any candidate at MINIMUM_MATCH_THRESHOLD: no match
C16_WitnessNoMatch ==
    /\ NoTokenNoTime
    /\ eng.candidates # <<>>
    /\ ~eng.result.matched
    /\ eng.decision = "pending_review"

\* the names a rule string is made of: the paths of process_exception and
\* the factor rules of _get_validation_rule
RuleNames ==
    {"direct_chg_lookup", "wsus_approved", "exact_asset_match", "within_change_window",
     "kb_article_match", "ticket_approved", "high_confidence_match"}

\* C17: every validation row with status auto_validated, written by the
\* import or by the engine, carries a rule that is not NULL, not empty and
\* made of the names of the path or of the factors that produced it
C17_AutoValidationCitesRule ==
    \A k \in 1..Len(validations) :
        validations[k].validation_status = "auto_validated" =>
            /\ validations[k].auto_validation_rule # NoRule
            /\ \A n \in 1..Len(validations[k].auto_validation_rule) :
                   validations[k].auto_validation_rule[n] \in RuleNames

\* C17 witness: an auto_validated row of the engine, scored exactly 0.95, and
\* an auto_validated row of the import, each with its rule
C17_Witness ==
    /\ \E k \in EngineRows :
          /\ validations[k].validation_status = "auto_validated"
          /\ validations[k].correlation_score = 95 * Scale
          /\ validations[k].auto_validation_rule # NoRule
    /\ \E k \in (1..Len(validations)) \ EngineRows :
          /\ validations[k].validation_status = "auto_validated"
          /\ validations[k].auto_validation_rule # NoRule

\* a list of identifiers is uppercase and holds no identifier twice
UpperNoRepeat(list) ==
    /\ \A i \in 1..Len(list) : Upper(list[i]) = list[i]
    /\ \A i, j \in 1..Len(list) : i # j => list[i] # list[j]

\* C18: the list an extractor returns for the comment is uppercase, without
\* repeats (letter case ignored) and in order of first occurrence, which is
\* the list extract_chg_numbers_from_comment returns, and extracting again
\* gives the same list; stated for _extract_chg_numbers of the finished call
\* and for the row parser
C18_ExtractionOrderedDeduped ==
    wf.pc = "done" =>
        /\ UpperNoRepeat(wf.chg_numbers)
        /\ wf.chg_numbers = extract_chg_numbers_from_comment(wf.exception.comment)
        /\ \A again \in _extract_chg_numbers(wf.exception.comment) : again = wf.chg_numbers
        /\ \A parsed \in _parse_row_chg_numbers(wf.exception.comment) :
               parsed = extract_chg_numbers_from_comment(wf.exception.comment)

\* the alerts that the next call of insert_alert can be handed: the row of
\* the import in progress with the id of any clock reading from now on, and
\* the alerts of the listeners
HandedToInsert ==
    (IF csv.pc = "insert"
     THEN {AlertData(csv.exceptions[csv.i], csv.i - 1, t) : t \in clock..MaxClock}
     ELSE {})
    \cup (IF lst.pc = "idle" /\ Len(alerts) + CsvPendingInserts < MaxAlerts
          THEN ListenerAlerts
          ELSE {})

\* C19: an alert handed to insert_alert has an alert_id that no other alert
\* has, whatever the source of the id and whatever the clock reads
C19_AlertIdsUnique ==
    \A alert \in HandedToInsert : ~AlertIdTaken(alerts, alert.alert_id)

\* ------------------------------------------------------------------------
\* One cycle of IDAlertProcessor.process_all_sources
\* ------------------------------------------------------------------------
\* the alerts of the mails and datagrams of a cycle
CycleAlerts == {alert \in ListenerAlerts : alert.alert_id \in {<<"ID", 1>>, <<"ID", 4>>}}

\* the lists fetch_unread_alerts and get_pending_alerts can return
Fetched == UNION {[1..n -> CycleAlerts] : n \in 0..MaxFetched}

\* the position of the loops after a step: the mails, then the datagrams,
\* then the return
CycleAt(c) ==
    IF c.pc = "email" /\ c.i > Len(c.emails)
    THEN IF c.syslog = <<>> THEN [c EXCEPT !.pc = "done", !.i = 0]
         ELSE [c EXCEPT !.pc = "syslog", !.i = 1]
    ELSE IF c.pc = "syslog" /\ c.i > Len(c.syslog) THEN [c EXCEPT !.pc = "done", !.i = 0]
    ELSE c

\* the mails are fetched and marked as read, the datagrams are in the queue
InitCycle ==
    /\ StoreInit
    /\ config = [snow |-> FALSE, correlator |-> TRUE]
    /\ csv = CsvIdle
    /\ lst = LstIdle
    /\ wf = WfIdle
    /\ eng = EngIdle
    /\ ts = TsIdle
    /\ \E emails \in Fetched : \E syslog \in Fetched :
         cyc = CycleAt([CycIdle EXCEPT !.pc = "email", !.emails = emails,
                                       !.syslog = syslog, !.i = 1])
    /\ ParserIdle

\* the alert the loop is at
CycleAlert == IF cyc.pc = "email" THEN cyc.emails[cyc.i] ELSE cyc.syslog[cyc.i]

\* self._process_alert(alert) returns: insert_alert, create_validation and,
\* for an auto_validated decision, update_alert_status
ProcessAlertReturns(alert) ==
    /\ ~AlertIdTaken(alerts, alert.alert_id)
    /\ \E candidates \in _get_candidate_changes(changes, alert) :
       \E result \in {correlate(alert, candidates, wsus_patches)} :
         /\ validations' = create_validation(validations,
                               EngineValidation(Len(alerts) + 1, result))
         /\ IF result.matched /\ result.is_auto_validated
            THEN /\ alerts' = update_alert_status(insert_alert(alerts, alert),
                                  Len(alerts) + 1, "validated")
                 /\ audit_log' = Append(audit_log,
                                     AuditEntry(Len(alerts) + 1, "SYSTEM", "validated"))
            ELSE /\ alerts' = insert_alert(alerts, alert)
                 /\ UNCHANGED audit_log

\* self._process_alert(alert) raises: in insert_alert (nothing is stored) or
\* in correlate_and_validate (the alert row is stored)
ProcessAlertRaises(alert) ==
    /\ \/ UNCHANGED alerts
       \/ /\ ~AlertIdTaken(alerts, alert.alert_id)
          /\ alerts' = insert_alert(alerts, alert)
    /\ UNCHANGED <<validations, audit_log>>

\* a pass of "for alert in alerts" over the mails: _process_alert returns
\* and results['email'] += 1
ProcessEmailAlert ==
    /\ cyc.pc = "email"
    /\ ProcessAlertReturns(CycleAlert)
    /\ cyc' = CycleAt([cyc EXCEPT !.i = cyc.i + 1,
                                  !.attempted = cyc.attempted \cup {<<"email", cyc.i>>},
                                  !.results.email = cyc.results.email + 1])
    /\ UNCHANGED <<sync_status, changes, wsus_patches, config, clock, csv, lst, wf, eng, ts, imp, sq>>

\* _process_alert raises in the loop over the mails: "except Exception"
\* encloses the whole loop, the rest of the mails is not processed
EmailAlertError ==
    /\ cyc.pc = "email"
    /\ ProcessAlertRaises(CycleAlert)
    /\ cyc' = CycleAt([cyc EXCEPT !.i = Len(cyc.emails) + 1,
                                  !.attempted = cyc.attempted \cup {<<"email", cyc.i>>}])
    /\ UNCHANGED <<sync_status, changes, wsus_patches, config, clock, csv, lst, wf, eng, ts, imp, sq>>

\* a pass of the loop over the drained datagrams
ProcessSyslogAlert ==
    /\ cyc.pc = "syslog"
    /\ ProcessAlertReturns(CycleAlert)
    /\ cyc' = CycleAt([cyc EXCEPT !.i = cyc.i + 1,
                                  !.attempted = cyc.attempted \cup {<<"syslog", cyc.i>>},
                                  !.results.syslog = cyc.results.syslog + 1])
    /\ UNCHANGED <<sync_status, changes, wsus_patches, config, clock, csv, lst, wf, eng, ts, imp, sq>>

\* _process_alert raises in the loop over the datagrams: nothing catches it,
\* process_all_sources raises
SyslogAlertError ==
    /\ cyc.pc = "syslog"
    /\ ProcessAlertRaises(CycleAlert)
    /\ cyc' = [cyc EXCEPT !.pc = "raised",
                          !.attempted = cyc.attempted \cup {<<"syslog", cyc.i>>}]
    /\ UNCHANGED <<sync_status, changes, wsus_patches, config, clock, csv, lst, wf, eng, ts, imp, sq>>

NextCycle ==
    \/ ProcessEmailAlert
    \/ EmailAlertError
    \/ ProcessSyslogAlert
    \/ SyslogAlertError

SpecCycle == InitCycle /\ [][NextCycle]_vars

\* the alerts obtained in the cycle, by channel and position
FetchedInCycle ==
    ({"email"} \X (1..Len(cyc.emails))) \cup ({"syslog"} \X (1..Len(cyc.syslog)))

\* C20: when process_all_sources ends, by return or by exception,
\* _process_alert was called for every alert obtained in the cycle: a failure
\* on one alert did not keep the remaining mails and datagrams from being
\* processed
C20_FailureDoesNotAbortRun ==
    cyc.pc \in {"done", "raised"} =>
        \A unit \in FetchedInCycle : unit \in cyc.attempted

\* ------------------------------------------------------------------------
\* Error handling of the waterfall (SpecWaterfall)
\* ------------------------------------------------------------------------
\* C21: a call of process_exception ends by returning a result, whatever
\* the lookup and the store queries of the waterfall did; when the lookup
\* failed, the result is that of the approved-patch path or of the fallback
C21_LookupFailureDegrades ==
    wf.pc \in {"done", "raised"} =>
        /\ wf.pc = "done"
        /\ (wf.chg_numbers # <<>> /\ config.snow /\ wf.lookup # "ok") =>
               /\ wf.result.correlation_method \in {"wsus_approved", "none"}
               /\ wf.result.correlation_method = "wsus_approved"
                      <=> WsusFires(wf.exception, wsus_patches)

\* ------------------------------------------------------------------------
\* IDExceptionParser.parse_csv (connectors/id_parser.py) and the batch
\* ------------------------------------------------------------------------
\* the header line of the export (tests/test_data.py), and a header with the
\* detection date in the first column
ExportHeaders ==
    <<"Type", "Patch ID", "Asset Groups", "Comment", "Exception Detection Date">>

DateFirstHeaders ==
    <<"Exception Detection Date", "Type", "Patch ID", "Comment", "Asset Groups">>

\* the value csv.DictReader gives a cell the data line does not have: None
NoCell == <<NULL>>

\* the cells a data line can hold in the column of a header, as texts
CellValues(header) ==
    CASE header = "Type" -> {<<"New">>}
      [] header = "Patch ID" -> {<<"KB5062070">>}
      [] header = "Asset Groups" -> {<<"D", "C", "0", "1">>}
      [] header = "Comment" -> {<<"Activity:", "CHG0000338290">>}
      [] header = "Exception Detection Date" ->
             {<<"8/29/2025 11:47:47 AM">>, <<"2025-08-29T11:47:47">>, <<"29.08.2025">>, <<>>}

\* the data lines under a header line: complete lines and lines cut short
DataLines(headers) ==
    {Slice(line, 1, k + 1) :
        line \in {l \in [1..Len(headers) -> UNION {CellValues(h) : h \in Range(headers)}] :
                     \A c \in 1..Len(headers) : l[c] \in CellValues(headers[c])},
        k \in 1..Len(headers)}

\* csv.DictReader: the row of a data line; a cell the line does not have is
\* None
DictReaderRow(headers, line) ==
    [h \in Range(headers) |->
        LET c == CHOOSE k \in 1..Len(headers) : headers[k] = h
        IN  IF c <= Len(line) THEN line[c] ELSE NoCell]

\* detect_exception_type
detect_exception_type(headers) ==
    IF "Patch ID" \in Range(headers) THEN "patches_installed"
    ELSE IF "Software Name" \in Range(headers) THEN "software_installed"
    ELSE "asset_details"

\* _parse_datetime: the time of a text in one of the known layouts, None
\* for no text and for any other text
_parse_datetime(value) ==
    IF value = NoCell \/ value = <<>> THEN NoTime
    ELSE CASE value = <<"8/29/2025 11:47:47 AM">> -> 60
           [] value = <<"2025-08-29T11:47:47">> -> 60
           [] OTHER -> NoTime

\* variant of _parse_row: no test of the detection date
_parse_row_keeps_undated(row, exception_type) ==
    IF row["Type"] = NoCell THEN [kind |-> "raise"]
    ELSE IF row["Comment"] = NoCell THEN [kind |-> "raise"]
    ELSE IF row["Patch ID"] = NoCell THEN [kind |-> "raise"]
    ELSE [kind |-> "exception",
          exception_type |-> exception_type,
          asset_group |-> row["Asset Groups"],
          comment |-> row["Comment"],
          detected_at |-> _parse_datetime(row["Exception Detection Date"]),
          extracted_chg_numbers |-> {Upper(c) : c \in Range(FindAll(ChgMatch, row["Comment"]))},
          patch_id |-> row["Patch ID"],
          kb_numbers |-> ParserKbNumbers(row["Patch ID"]),
          raw_row |-> row]

\* IDExceptionParser._parse_row: it raises (value.lower() of None in
\* _parse_change_action, findall of None), returns None, or returns the
\* IDException
_parse_row(row, exception_type) ==
    IF row["Type"] = NoCell THEN [kind |-> "raise"]
    ELSE IF _parse_datetime(row["Exception Detection Date"]) = NoTime THEN [kind |-> "none"]
    ELSE IF row["Comment"] = NoCell THEN [kind |-> "raise"]
    ELSE IF row["Patch ID"] = NoCell THEN [kind |-> "raise"]
    ELSE [kind |-> "exception",
          exception_type |-> exception_type,
          asset_group |-> row["Asset Groups"],
          comment |-> row["Comment"],
          detected_at |-> _parse_datetime(row["Exception Detection Date"]),
          extracted_chg_numbers |-> {Upper(c) : c \in Range(FindAll(ChgMatch, row["Comment"]))},
          patch_id |-> row["Patch ID"],
          kb_numbers |-> ParserKbNumbers(row["Patch ID"]),
          raw_row |-> row]

\* to_database_records: the dictionary of one IDException, with the keys
\* process_exception reads
to_database_record(exc) ==
    [exception_type |-> exc.exception_type, comment |-> exc.comment,
     patch_id |-> exc.patch_id, kb_numbers |-> exc.kb_numbers,
     asset_group |-> exc.asset_group, detected_at |-> exc.detected_at]

\* the file is open: its header line and its data lines
InitImport ==
    /\ StoreInit
    /\ config \in [snow : BOOLEAN, correlator : {TRUE}]
    /\ csv = CsvIdle
    /\ lst = LstIdle
    /\ wf = WfIdle
    /\ eng = EngIdle
    /\ ts = TsIdle
    /\ cyc = CycIdle
    /\ \E headers \in {ExportHeaders, DateFirstHeaders} :
       \E n \in 1..MaxLines : \E lines \in [1..n -> DataLines(headers)] :
         imp = [ImpIdle EXCEPT !.pc = "rows", !.headers = headers, !.lines = lines, !.i = 1]
    /\ sq = SqIdle

\* a pass of "for row in reader": the exception is appended, or the row is
\* skipped because _parse_row returned None or raised
ParseRow ==
    /\ imp.pc = "rows"
    /\ \E exception \in {_parse_row(DictReaderRow(imp.headers, imp.lines[imp.i]),
                                    detect_exception_type(imp.headers))} :
         imp' = [imp EXCEPT
                    !.exceptions = IF exception.kind = "exception"
                                   THEN Append(@, exception) ELSE @,
                    !.i = @ + 1,
                    !.pc = IF imp.i = Len(imp.lines) THEN "parsed" ELSE "rows"]
    /\ UNCHANGED <<store, changes, wsus_patches, config, clock, csv, lst, wf, eng, ts, cyc, sq>>

\* exc_dicts = parser.to_database_records(exceptions);
\* summary = self.validator.process_batch(exc_dicts)
ImportBatch ==
    /\ imp.pc = "parsed"
    /\ \E exc_dicts \in {[k \in 1..Len(imp.exceptions) |->
                             to_database_record(imp.exceptions[k])]} :
       \E results \in ProcessBatchResults(exc_dicts, config.snow, wsus_patches) :
         imp' = [imp EXCEPT !.pc = "done",
                            !.total = Summary(exc_dicts, results).total]
    /\ UNCHANGED <<store, changes, wsus_patches, config, clock, csv, lst, wf, eng, ts, cyc, sq>>

NextImport ==
    \/ ParseRow
    \/ ImportBatch

SpecImport == InitImport /\ [][NextImport]_vars

\* the rows of the data lines read so far
RowsRead == [k \in 1..(imp.i - 1) |-> DictReaderRow(imp.headers, imp.lines[k])]

\* the row has a parsable detection timestamp
Dated(row) == _parse_datetime(row["Exception Detection Date"]) # NoTime

\* the cells of which the parser reads the text are present
Complete(row) == \A h \in {"Type", "Comment", "Patch ID"} : row[h] # NoCell

\* the rows of the exceptions emitted so far
EmittedRows == [k \in 1..Len(imp.exceptions) |-> imp.exceptions[k].raw_row]

Datagrams ==
    { [cef |-> TRUE, matches |-> TRUE, sig_id |-> "100", name |-> <<"patch">>,
       dhost |-> dc01, msg |-> <<"KB5062070", "installed">>],
      [cef |-> TRUE, matches |-> TRUE, sig_id |-> "101", name |-> <<"patch">>,
       dhost |-> <<>>, msg |-> <<>>],
      [cef |-> TRUE, matches |-> FALSE, sig_id |-> "", name |-> <<>>,
       dhost |-> <<>>, msg |-> <<>>],
      [cef |-> FALSE, matches |-> FALSE, sig_id |-> "", name |-> <<>>,
       dhost |-> <<"D", "C", "0", "1">>, msg |-> <<>>],
      [cef |-> FALSE, matches |-> FALSE, sig_id |-> "", name |-> <<>>,
       dhost |-> <<>>, msg |-> <<>>] }

\* SyslogHandler._parse_cef: None, or the alert; ext_data.get('dhost',
\* ext_data.get('dst', '')) is '' without those keys
_parse_cef(message) ==
    IF ~message.matches THEN <<>>
    ELSE << [alert_id |-> <<"CEF", message.sig_id>>,
             asset_name |-> message.dhost,
             asset_name_normalized |-> LowerChars(message.dhost),
             change_category |-> message.name,
             change_detail |-> message.msg,
             detected_at |-> 60,
             source_type |-> "syslog_cef"] >>

\* SyslogHandler._parse_custom: None without a host/asset/src match, else
\* the alert with an id generated from the time (the keys it does not set
\* are empty here)
_parse_custom(message, now) ==
    IF message.dhost = <<>> THEN <<>>
    ELSE << [alert_id |-> <<"SYSLOG", now>>,
             asset_name |-> message.dhost,
             asset_name_normalized |-> LowerChars(message.dhost),
             change_category |-> <<>>,
             change_detail |-> <<>>,
             detected_at |-> 60,
             source_type |-> "syslog"] >>

\* SyslogHandler._parse_syslog_message: <<>> for None, <<alert>> otherwise
_parse_syslog_message(message, now) ==
    IF message.cef THEN _parse_cef(message) ELSE _parse_custom(message, now)

\* variant of QueueNotFull: a queue of maxsize 1, on which put blocks
QueueNotFull_maxsize_1(queue) == Len(queue) < 1

\* alert_queue = Queue(): maxsize 0, put never finds the queue full
QueueNotFull(queue) == TRUE

\* variant of get_nowait: the item put last, as of a LifoQueue
get_nowait_last(queue) ==
    [item |-> queue[Len(queue)], queue |-> Slice(queue, 1, Len(queue))]

\* Queue.get_nowait on a queue that is not empty: the item and the queue left
get_nowait(queue) == [item |-> Head(queue), queue |-> Tail(queue)]

\* the receiver is started, the consumer is between two cycles
InitSyslog ==
    /\ StoreInit
    /\ config = [snow |-> FALSE, correlator |-> TRUE]
    /\ csv = CsvIdle
    /\ lst = LstIdle
    /\ wf = WfIdle
    /\ eng = EngIdle
    /\ ts = TsIdle
    /\ cyc = CycIdle
    /\ imp = ImpIdle
    /\ \E n \in 1..MaxDatagrams : \E datagrams \in [1..n -> Datagrams] :
         sq = [SqIdle EXCEPT !.datagrams = datagrams]

\* SyslogHandler.handle on the next datagram, in the listener thread
Handle ==
    /\ sq.handled < Len(sq.datagrams)
    /\ QueueNotFull(sq.alert_queue)
    /\ \E alert \in {_parse_syslog_message(sq.datagrams[sq.handled + 1], sq.handled + 1)} :
         sq' = [sq EXCEPT !.handled = @ + 1,
                          !.alert_queue = IF alert # <<>> THEN Append(@, alert[1]) ELSE @]
    /\ UNCHANGED <<store, changes, wsus_patches, config, clock, csv, lst, wf, eng, ts, cyc, imp>>

\* get_pending_alerts is called: alerts = []
GetPendingStart ==
    /\ sq.pc = "idle"
    /\ sq' = [sq EXCEPT !.pc = "empty", !.alerts = <<>>]
    /\ UNCHANGED <<store, changes, wsus_patches, config, clock, csv, lst, wf, eng, ts, cyc, imp>>

\* while not SyslogHandler.alert_queue.empty(): enter the body, or return
\* alerts
GetPendingEmpty ==
    /\ sq.pc = "empty"
    /\ sq' = IF sq.alert_queue = <<>>
             THEN [sq EXCEPT !.pc = "idle", !.returned = @ \o sq.alerts, !.alerts = <<>>]
             ELSE [sq EXCEPT !.pc = "get"]
    /\ UNCHANGED <<store, changes, wsus_patches, config, clock, csv, lst, wf, eng, ts, cyc, imp>>

\* alerts.append(SyslogHandler.alert_queue.get_nowait()); "except: break"
\* returns alerts
GetPendingGet ==
    /\ sq.pc = "get"
    /\ sq' = IF sq.alert_queue = <<>>
             THEN [sq EXCEPT !.pc = "idle", !.returned = @ \o sq.alerts, !.alerts = <<>>]
             ELSE [sq EXCEPT !.pc = "empty",
                             !.alerts = Append(@, get_nowait(sq.alert_queue).item),
                             !.alert_queue = get_nowait(sq.alert_queue).queue]
    /\ UNCHANGED <<store, changes, wsus_patches, config, clock, csv, lst, wf, eng, ts, cyc, imp>>

NextSyslog ==
    \/ Handle
    \/ GetPendingStart
    \/ GetPendingEmpty
    \/ GetPendingGet

SpecSyslog == InitSyslog /\ [][NextSyslog]_vars

\* the listener thread runs serve_forever and handles every datagram
\* received; nothing is assumed of the consumer
SpecSyslogListener == InitSyslog /\ [][NextSyslog]_vars /\ WF_vars(Handle)

\* C23: no alert with an empty asset_name is on the syslog queue, in the
\* list being drained or among the alerts returned to the processor
C23_NoAlertWithoutAsset ==
    \A alert \in Range(sq.alert_queue) \cup Range(sq.alerts) \cup Range(sq.returned) :
        alert.asset_name # <<>>

\* C25: the syslog queue has a fixed capacity and an arrival at a full queue
\* is dropped or rejected: whatever the capacity, a burst of more datagrams
\* than it is never held in the queue as a whole (here a capacity below
\* MaxDatagrams and a burst of MaxDatagrams)
C25_QueueBounded == Len(sq.alert_queue) < MaxDatagrams

\* C26: the listener never waits for the consumer: with the listener thread
\* running and whatever the consumer does (slow, stalled for ever), handle
\* completes for every datagram received
C26_ListenerNeverBlocks == <>(sq.handled = Len(sq.datagrams))

\* C26 witness: every datagram of a burst is handled and its alerts are
\* queued while the consumer has not taken a single step
C26_Witness ==
    /\ sq.handled = Len(sq.datagrams)
    /\ Len(sq.alert_queue) >= 2
    /\ sq.pc = "idle"
    /\ sq.alerts = <<>>
    /\ sq.returned = <<>>

\* the alerts put on the queue so far, in the order of the puts
Enqueued ==
    LET parsed == [k \in 1..sq.handled |-> _parse_syslog_message(sq.datagrams[k], k)]
        put == SelectSeq(parsed, LAMBDA alert : alert # <<>>)
    IN  [k \in 1..Len(put) |-> put[k][1]]

\* C30: under every interleaving of handle and get_pending_alerts, the
\* alerts returned so far, those of the call in progress and those still
\* queued are, in this order, exactly the alerts enqueued in the order of
\* their puts: none is lost, returned twice or out of order
C30_ExactlyOnceFifo == sq.returned \o sq.alerts \o sq.alert_queue = Enqueued

\* C30 witness: a call has returned, a second one has taken an alert that
\* was put while the first was draining or after it, and a further alert
\* is queued
C30_Witness ==
    /\ sq.returned # <<>>
    /\ sq.alerts # <<>>
    /\ sq.alert_queue # <<>>

\* C30 witness: one call returns two alerts, the second put after the call
\* had found the queue not empty
C30_WitnessMidDrain ==
    /\ sq.pc = "get"
    /\ sq.alerts # <<>>
    /\ sq.handled = Len(sq.datagrams)
    /\ Len(sq.alert_queue) = 1
    /\ Len(Enqueued) = 2

C27_TieBrokenByRule ==
    eng.pc = "done" =>
        \A candidates \in _get_candidate_changes(changes, eng.alert) :
            correlate(eng.alert, candidates, wsus_patches) = eng.result

\* the row of the changes table a result matched
MatchedChange(result) ==
    CHOOSE change \in Range(changes) : change.id = result.change_id

\* C28: the generic path decides auto_validated only for a matched Change
\* whose approval_status is 'approved'
C28_AutoValidatedOnlyIfApproved ==
    (eng.pc = "done" /\ eng.decision = "auto_validated") =>
        /\ eng.result.matched
        /\ MatchedChange(eng.result).approval_status = "approved"

\* C29: when the direct lookup validates, every ticket of matched_tickets
\* is one the lookup found approved and closed
C29_MatchedTicketsApproved ==
    (wf.pc = "done" /\ wf.result.correlation_method = "direct_chg_lookup") =>
        \A i \in 1..Len(wf.result.matched_tickets) :
            \E c \in approved_changes(lookup_multiple_chg(wf.chg_numbers, wf.lookup = "ok")) :
                c.ticket_id = wf.result.matched_tickets[i]

=============================================================================
